---- MODULE Spec2Model ----
(***************************************************************************)
(* Model of the DataFusion/DuckDB micro-benchmark harness:                 *)
(*   - the benchmark catalogs (case templates, column bindings, registry), *)
(*   - the seeded synthetic data generators,                               *)
(*   - run_benchmarks (temporary file, engine sessions, warmup and timed   *)
(*     runs per case and engine, failure sentinel),                        *)
(*   - format_results_markdown (rows and summary block).                   *)
(* Latencies are exact rationals <<numerator, denominator>>; the failure   *)
(* sentinel float('nan') is the value NaN.                                 *)
(***************************************************************************)
EXTENDS Integers, Sequences, FiniteSets, TLC

(***************************************************************************)
(* Case templates.  A template is the str.format string of the source,     *)
(* split into literal text and replacement fields {name}.                  *)
(***************************************************************************)
Lit(text) == [kind |-> "lit", text |-> text]

Field(name) == [kind |-> "field", text |-> name]

BenchmarkFunction(name, datafusion_expr, duckdb_expr) ==
  [name |-> name, datafusion_expr |-> datafusion_expr, duckdb_expr |-> duckdb_expr]

Micro_STRING_FUNCTIONS ==
  <<
    BenchmarkFunction("trim",
      <<Lit("trim("), Field("col"), Lit(")")>>,
      <<Lit("trim("), Field("col"), Lit(")")>>),
    BenchmarkFunction("ltrim",
      <<Lit("ltrim("), Field("col"), Lit(")")>>,
      <<Lit("ltrim("), Field("col"), Lit(")")>>),
    BenchmarkFunction("rtrim",
      <<Lit("rtrim("), Field("col"), Lit(")")>>,
      <<Lit("rtrim("), Field("col"), Lit(")")>>),
    BenchmarkFunction("lower",
      <<Lit("lower("), Field("col"), Lit(")")>>,
      <<Lit("lower("), Field("col"), Lit(")")>>),
    BenchmarkFunction("upper",
      <<Lit("upper("), Field("col"), Lit(")")>>,
      <<Lit("upper("), Field("col"), Lit(")")>>),
    BenchmarkFunction("length",
      <<Lit("length("), Field("col"), Lit(")")>>,
      <<Lit("length("), Field("col"), Lit(")")>>),
    BenchmarkFunction("char_length",
      <<Lit("char_length("), Field("col"), Lit(")")>>,
      <<Lit("length("), Field("col"), Lit(")")>>),
    BenchmarkFunction("reverse",
      <<Lit("reverse("), Field("col"), Lit(")")>>,
      <<Lit("reverse("), Field("col"), Lit(")")>>),
    BenchmarkFunction("repeat_3",
      <<Lit("repeat("), Field("col"), Lit(", 3)")>>,
      <<Lit("repeat("), Field("col"), Lit(", 3)")>>),
    BenchmarkFunction("concat",
      <<Lit("concat("), Field("col"), Lit(", "), Field("col"), Lit(")")>>,
      <<Lit("concat("), Field("col"), Lit(", "), Field("col"), Lit(")")>>),
    BenchmarkFunction("concat_ws",
      <<Lit("concat_ws('-', "), Field("col"), Lit(", "), Field("col"), Lit(")")>>,
      <<Lit("concat_ws('-', "), Field("col"), Lit(", "), Field("col"), Lit(")")>>),
    BenchmarkFunction("substring_1_5",
      <<Lit("substring("), Field("col"), Lit(", 1, 5)")>>,
      <<Lit("substring("), Field("col"), Lit(", 1, 5)")>>),
    BenchmarkFunction("left_5",
      <<Lit("left("), Field("col"), Lit(", 5)")>>,
      <<Lit("left("), Field("col"), Lit(", 5)")>>),
    BenchmarkFunction("right_5",
      <<Lit("right("), Field("col"), Lit(", 5)")>>,
      <<Lit("right("), Field("col"), Lit(", 5)")>>),
    BenchmarkFunction("lpad_20",
      <<Lit("lpad("), Field("col"), Lit(", 20, '*')")>>,
      <<Lit("lpad("), Field("col"), Lit(", 20, '*')")>>),
    BenchmarkFunction("rpad_20",
      <<Lit("rpad("), Field("col"), Lit(", 20, '*')")>>,
      <<Lit("rpad("), Field("col"), Lit(", 20, '*')")>>),
    BenchmarkFunction("replace",
      <<Lit("replace("), Field("col"), Lit(", 'a', 'X')")>>,
      <<Lit("replace("), Field("col"), Lit(", 'a', 'X')")>>),
    BenchmarkFunction("translate",
      <<Lit("translate("), Field("col"), Lit(", 'aeiou', '12345')")>>,
      <<Lit("translate("), Field("col"), Lit(", 'aeiou', '12345')")>>),
    BenchmarkFunction("ascii",
      <<Lit("ascii("), Field("col"), Lit(")")>>,
      <<Lit("ascii("), Field("col"), Lit(")")>>),
    BenchmarkFunction("md5",
      <<Lit("md5("), Field("col"), Lit(")")>>,
      <<Lit("md5("), Field("col"), Lit(")")>>),
    BenchmarkFunction("sha256",
      <<Lit("sha256("), Field("col"), Lit(")")>>,
      <<Lit("sha256("), Field("col"), Lit(")")>>),
    BenchmarkFunction("btrim",
      <<Lit("btrim("), Field("col"), Lit(", ' ')")>>,
      <<Lit("trim("), Field("col"), Lit(", ' ')")>>),
    BenchmarkFunction("split_part",
      <<Lit("split_part("), Field("col"), Lit(", ' ', 1)")>>,
      <<Lit("split_part("), Field("col"), Lit(", ' ', 1)")>>),
    BenchmarkFunction("starts_with",
      <<Lit("starts_with("), Field("col"), Lit(", 'test')")>>,
      <<Lit("starts_with("), Field("col"), Lit(", 'test')")>>),
    BenchmarkFunction("ends_with",
      <<Lit("ends_with("), Field("col"), Lit(", 'data')")>>,
      <<Lit("ends_with("), Field("col"), Lit(", 'data')")>>),
    BenchmarkFunction("strpos",
      <<Lit("strpos("), Field("col"), Lit(", 'e')")>>,
      <<Lit("strpos("), Field("col"), Lit(", 'e')")>>),
    BenchmarkFunction("regexp_replace",
      <<Lit("regexp_replace("), Field("col"), Lit(", '[aeiou]', '*')")>>,
      <<Lit("regexp_replace("), Field("col"), Lit(", '[aeiou]', '*', 'g')")>>)
  >>

Sfb_STRING_FUNCTIONS ==
  <<
    BenchmarkFunction("trim",
      <<Lit("trim("), Field("str_col"), Lit(")")>>,
      <<Lit("trim("), Field("str_col"), Lit(")")>>),
    BenchmarkFunction("ltrim",
      <<Lit("ltrim("), Field("str_col"), Lit(")")>>,
      <<Lit("ltrim("), Field("str_col"), Lit(")")>>),
    BenchmarkFunction("rtrim",
      <<Lit("rtrim("), Field("str_col"), Lit(")")>>,
      <<Lit("rtrim("), Field("str_col"), Lit(")")>>),
    BenchmarkFunction("lower",
      <<Lit("lower("), Field("str_col"), Lit(")")>>,
      <<Lit("lower("), Field("str_col"), Lit(")")>>),
    BenchmarkFunction("upper",
      <<Lit("upper("), Field("str_col"), Lit(")")>>,
      <<Lit("upper("), Field("str_col"), Lit(")")>>),
    BenchmarkFunction("length",
      <<Lit("length("), Field("str_col"), Lit(")")>>,
      <<Lit("length("), Field("str_col"), Lit(")")>>),
    BenchmarkFunction("char_length",
      <<Lit("char_length("), Field("str_col"), Lit(")")>>,
      <<Lit("length("), Field("str_col"), Lit(")")>>),
    BenchmarkFunction("reverse",
      <<Lit("reverse("), Field("str_col"), Lit(")")>>,
      <<Lit("reverse("), Field("str_col"), Lit(")")>>),
    BenchmarkFunction("repeat_3",
      <<Lit("repeat("), Field("str_col"), Lit(", 3)")>>,
      <<Lit("repeat("), Field("str_col"), Lit(", 3)")>>),
    BenchmarkFunction("concat",
      <<Lit("concat("), Field("str_col"), Lit(", "), Field("str_col"), Lit(")")>>,
      <<Lit("concat("), Field("str_col"), Lit(", "), Field("str_col"), Lit(")")>>),
    BenchmarkFunction("concat_ws",
      <<Lit("concat_ws('-', "), Field("str_col"), Lit(", "), Field("str_col"), Lit(")")>>,
      <<Lit("concat_ws('-', "), Field("str_col"), Lit(", "), Field("str_col"), Lit(")")>>),
    BenchmarkFunction("substring_1_5",
      <<Lit("substring("), Field("str_col"), Lit(", 1, 5)")>>,
      <<Lit("substring("), Field("str_col"), Lit(", 1, 5)")>>),
    BenchmarkFunction("left_5",
      <<Lit("left("), Field("str_col"), Lit(", 5)")>>,
      <<Lit("left("), Field("str_col"), Lit(", 5)")>>),
    BenchmarkFunction("right_5",
      <<Lit("right("), Field("str_col"), Lit(", 5)")>>,
      <<Lit("right("), Field("str_col"), Lit(", 5)")>>),
    BenchmarkFunction("lpad_20",
      <<Lit("lpad("), Field("str_col"), Lit(", 20, '*')")>>,
      <<Lit("lpad("), Field("str_col"), Lit(", 20, '*')")>>),
    BenchmarkFunction("rpad_20",
      <<Lit("rpad("), Field("str_col"), Lit(", 20, '*')")>>,
      <<Lit("rpad("), Field("str_col"), Lit(", 20, '*')")>>),
    BenchmarkFunction("replace",
      <<Lit("replace("), Field("str_col"), Lit(", 'a', 'X')")>>,
      <<Lit("replace("), Field("str_col"), Lit(", 'a', 'X')")>>),
    BenchmarkFunction("translate",
      <<Lit("translate("), Field("str_col"), Lit(", 'aeiou', '12345')")>>,
      <<Lit("translate("), Field("str_col"), Lit(", 'aeiou', '12345')")>>),
    BenchmarkFunction("ascii",
      <<Lit("ascii("), Field("str_col"), Lit(")")>>,
      <<Lit("ascii("), Field("str_col"), Lit(")")>>),
    BenchmarkFunction("md5",
      <<Lit("md5("), Field("str_col"), Lit(")")>>,
      <<Lit("md5("), Field("str_col"), Lit(")")>>),
    BenchmarkFunction("sha256",
      <<Lit("sha256("), Field("str_col"), Lit(")")>>,
      <<Lit("sha256("), Field("str_col"), Lit(")")>>),
    BenchmarkFunction("btrim",
      <<Lit("btrim("), Field("str_col"), Lit(", ' ')")>>,
      <<Lit("trim("), Field("str_col"), Lit(", ' ')")>>),
    BenchmarkFunction("split_part",
      <<Lit("split_part("), Field("str_col"), Lit(", ' ', 1)")>>,
      <<Lit("split_part("), Field("str_col"), Lit(", ' ', 1)")>>),
    BenchmarkFunction("starts_with",
      <<Lit("starts_with("), Field("str_col"), Lit(", 'test')")>>,
      <<Lit("starts_with("), Field("str_col"), Lit(", 'test')")>>),
    BenchmarkFunction("ends_with",
      <<Lit("ends_with("), Field("str_col"), Lit(", 'data')")>>,
      <<Lit("ends_with("), Field("str_col"), Lit(", 'data')")>>),
    BenchmarkFunction("strpos",
      <<Lit("strpos("), Field("str_col"), Lit(", 'e')")>>,
      <<Lit("strpos("), Field("str_col"), Lit(", 'e')")>>),
    BenchmarkFunction("regexp_replace",
      <<Lit("regexp_replace("), Field("str_col"), Lit(", '[aeiou]', '*')")>>,
      <<Lit("regexp_replace("), Field("str_col"), Lit(", '[aeiou]', '*', 'g')")>>)
  >>

Sfb_TEMPORAL_FUNCTIONS ==
  <<
    BenchmarkFunction("extract_year",
      <<Lit("extract(YEAR FROM "), Field("ts_col"), Lit(")")>>,
      <<Lit("extract(YEAR FROM "), Field("ts_col"), Lit(")")>>),
    BenchmarkFunction("extract_month",
      <<Lit("extract(MONTH FROM "), Field("ts_col"), Lit(")")>>,
      <<Lit("extract(MONTH FROM "), Field("ts_col"), Lit(")")>>),
    BenchmarkFunction("extract_day",
      <<Lit("extract(DAY FROM "), Field("ts_col"), Lit(")")>>,
      <<Lit("extract(DAY FROM "), Field("ts_col"), Lit(")")>>),
    BenchmarkFunction("extract_hour",
      <<Lit("extract(HOUR FROM "), Field("ts_col"), Lit(")")>>,
      <<Lit("extract(HOUR FROM "), Field("ts_col"), Lit(")")>>),
    BenchmarkFunction("extract_minute",
      <<Lit("extract(MINUTE FROM "), Field("ts_col"), Lit(")")>>,
      <<Lit("extract(MINUTE FROM "), Field("ts_col"), Lit(")")>>),
    BenchmarkFunction("extract_second",
      <<Lit("extract(SECOND FROM "), Field("ts_col"), Lit(")")>>,
      <<Lit("extract(SECOND FROM "), Field("ts_col"), Lit(")")>>),
    BenchmarkFunction("extract_dow",
      <<Lit("extract(DOW FROM "), Field("ts_col"), Lit(")")>>,
      <<Lit("extract(DOW FROM "), Field("ts_col"), Lit(")")>>),
    BenchmarkFunction("extract_doy",
      <<Lit("extract(DOY FROM "), Field("ts_col"), Lit(")")>>,
      <<Lit("extract(DOY FROM "), Field("ts_col"), Lit(")")>>),
    BenchmarkFunction("extract_week",
      <<Lit("extract(WEEK FROM "), Field("ts_col"), Lit(")")>>,
      <<Lit("extract(WEEK FROM "), Field("ts_col"), Lit(")")>>),
    BenchmarkFunction("extract_quarter",
      <<Lit("extract(QUARTER FROM "), Field("ts_col"), Lit(")")>>,
      <<Lit("extract(QUARTER FROM "), Field("ts_col"), Lit(")")>>),
    BenchmarkFunction("extract_epoch",
      <<Lit("extract(EPOCH FROM "), Field("ts_col"), Lit(")")>>,
      <<Lit("extract(EPOCH FROM "), Field("ts_col"), Lit(")")>>),
    BenchmarkFunction("date_trunc_year",
      <<Lit("date_trunc('year', "), Field("ts_col"), Lit(")")>>,
      <<Lit("date_trunc('year', "), Field("ts_col"), Lit(")")>>),
    BenchmarkFunction("date_trunc_quarter",
      <<Lit("date_trunc('quarter', "), Field("ts_col"), Lit(")")>>,
      <<Lit("date_trunc('quarter', "), Field("ts_col"), Lit(")")>>),
    BenchmarkFunction("date_trunc_month",
      <<Lit("date_trunc('month', "), Field("ts_col"), Lit(")")>>,
      <<Lit("date_trunc('month', "), Field("ts_col"), Lit(")")>>),
    BenchmarkFunction("date_trunc_week",
      <<Lit("date_trunc('week', "), Field("ts_col"), Lit(")")>>,
      <<Lit("date_trunc('week', "), Field("ts_col"), Lit(")")>>),
    BenchmarkFunction("date_trunc_day",
      <<Lit("date_trunc('day', "), Field("ts_col"), Lit(")")>>,
      <<Lit("date_trunc('day', "), Field("ts_col"), Lit(")")>>),
    BenchmarkFunction("date_trunc_hour",
      <<Lit("date_trunc('hour', "), Field("ts_col"), Lit(")")>>,
      <<Lit("date_trunc('hour', "), Field("ts_col"), Lit(")")>>),
    BenchmarkFunction("date_trunc_minute",
      <<Lit("date_trunc('minute', "), Field("ts_col"), Lit(")")>>,
      <<Lit("date_trunc('minute', "), Field("ts_col"), Lit(")")>>),
    BenchmarkFunction("date_trunc_second",
      <<Lit("date_trunc('second', "), Field("ts_col"), Lit(")")>>,
      <<Lit("date_trunc('second', "), Field("ts_col"), Lit(")")>>),
    BenchmarkFunction("date_part_year",
      <<Lit("date_part('year', "), Field("ts_col"), Lit(")")>>,
      <<Lit("date_part('year', "), Field("ts_col"), Lit(")")>>),
    BenchmarkFunction("date_part_month",
      <<Lit("date_part('month', "), Field("ts_col"), Lit(")")>>,
      <<Lit("date_part('month', "), Field("ts_col"), Lit(")")>>),
    BenchmarkFunction("date_part_day",
      <<Lit("date_part('day', "), Field("ts_col"), Lit(")")>>,
      <<Lit("date_part('day', "), Field("ts_col"), Lit(")")>>),
    BenchmarkFunction("date_part_hour",
      <<Lit("date_part('hour', "), Field("ts_col"), Lit(")")>>,
      <<Lit("date_part('hour', "), Field("ts_col"), Lit(")")>>),
    BenchmarkFunction("date_part_dow",
      <<Lit("date_part('dow', "), Field("ts_col"), Lit(")")>>,
      <<Lit("date_part('dow', "), Field("ts_col"), Lit(")")>>),
    BenchmarkFunction("date_part_week",
      <<Lit("date_part('week', "), Field("ts_col"), Lit(")")>>,
      <<Lit("date_part('week', "), Field("ts_col"), Lit(")")>>),
    BenchmarkFunction("add_days",
      <<Field("ts_col"), Lit(" + INTERVAL '7' DAY")>>,
      <<Field("ts_col"), Lit(" + INTERVAL '7 days'")>>),
    BenchmarkFunction("sub_days",
      <<Field("ts_col"), Lit(" - INTERVAL '7' DAY")>>,
      <<Field("ts_col"), Lit(" - INTERVAL '7 days'")>>),
    BenchmarkFunction("add_months",
      <<Field("ts_col"), Lit(" + INTERVAL '1' MONTH")>>,
      <<Field("ts_col"), Lit(" + INTERVAL '1 month'")>>),
    BenchmarkFunction("add_hours",
      <<Field("ts_col"), Lit(" + INTERVAL '12' HOUR")>>,
      <<Field("ts_col"), Lit(" + INTERVAL '12 hours'")>>),
    BenchmarkFunction("add_minutes",
      <<Field("ts_col"), Lit(" + INTERVAL '30' MINUTE")>>,
      <<Field("ts_col"), Lit(" + INTERVAL '30 minutes'")>>),
    BenchmarkFunction("to_char_date",
      <<Lit("to_char("), Field("ts_col"), Lit(", '%Y-%m-%d')")>>,
      <<Lit("strftime("), Field("ts_col"), Lit(", '%Y-%m-%d')")>>),
    BenchmarkFunction("to_char_datetime",
      <<Lit("to_char("), Field("ts_col"), Lit(", '%Y-%m-%d %H:%M:%S')")>>,
      <<Lit("strftime("), Field("ts_col"), Lit(", '%Y-%m-%d %H:%M:%S')")>>),
    BenchmarkFunction("to_char_time",
      <<Lit("to_char("), Field("ts_col"), Lit(", '%H:%M:%S')")>>,
      <<Lit("strftime("), Field("ts_col"), Lit(", '%H:%M:%S')")>>)
  >>

Sfb_CONDITIONAL_FUNCTIONS ==
  <<
    BenchmarkFunction("case_2_branches",
      <<Lit("CASE WHEN "), Field("int_col"), Lit(" > 50 THEN 'high' ELSE 'low' END")>>,
      <<Lit("CASE WHEN "), Field("int_col"), Lit(" > 50 THEN 'high' ELSE 'low' END")>>),
    BenchmarkFunction("case_3_branches",
      <<Lit("CASE WHEN "), Field("int_col"), Lit(" > 66 THEN 'high' WHEN "), Field("int_col"), Lit(" > 33 THEN 'medium' ELSE 'low' END")>>,
      <<Lit("CASE WHEN "), Field("int_col"), Lit(" > 66 THEN 'high' WHEN "), Field("int_col"), Lit(" > 33 THEN 'medium' ELSE 'low' END")>>),
    BenchmarkFunction("case_5_branches",
      <<Lit("CASE WHEN "), Field("int_col"), Lit(" > 80 THEN 'A' WHEN "), Field("int_col"), Lit(" > 60 THEN 'B' WHEN "), Field("int_col"), Lit(" > 40 THEN 'C' WHEN "), Field("int_col"), Lit(" > 20 THEN 'D' ELSE 'F' END")>>,
      <<Lit("CASE WHEN "), Field("int_col"), Lit(" > 80 THEN 'A' WHEN "), Field("int_col"), Lit(" > 60 THEN 'B' WHEN "), Field("int_col"), Lit(" > 40 THEN 'C' WHEN "), Field("int_col"), Lit(" > 20 THEN 'D' ELSE 'F' END")>>),
    BenchmarkFunction("case_10_branches",
      <<Lit("CASE WHEN "), Field("int_col"), Lit(" >= 90 THEN 'A+' WHEN "), Field("int_col"), Lit(" >= 85 THEN 'A' WHEN "), Field("int_col"), Lit(" >= 80 THEN 'A-' WHEN "), Field("int_col"), Lit(" >= 75 THEN 'B+' WHEN "), Field("int_col"), Lit(" >= 70 THEN 'B' WHEN "), Field("int_col"), Lit(" >= 65 THEN 'B-' WHEN "), Field("int_col"), Lit(" >= 60 THEN 'C+' WHEN "), Field("int_col"), Lit(" >= 55 THEN 'C' WHEN "), Field("int_col"), Lit(" >= 50 THEN 'C-' ELSE 'F' END")>>,
      <<Lit("CASE WHEN "), Field("int_col"), Lit(" >= 90 THEN 'A+' WHEN "), Field("int_col"), Lit(" >= 85 THEN 'A' WHEN "), Field("int_col"), Lit(" >= 80 THEN 'A-' WHEN "), Field("int_col"), Lit(" >= 75 THEN 'B+' WHEN "), Field("int_col"), Lit(" >= 70 THEN 'B' WHEN "), Field("int_col"), Lit(" >= 65 THEN 'B-' WHEN "), Field("int_col"), Lit(" >= 60 THEN 'C+' WHEN "), Field("int_col"), Lit(" >= 55 THEN 'C' WHEN "), Field("int_col"), Lit(" >= 50 THEN 'C-' ELSE 'F' END")>>),
    BenchmarkFunction("case_simple_match",
      <<Lit("CASE "), Field("category"), Lit(" WHEN 'A' THEN 1 WHEN 'B' THEN 2 WHEN 'C' THEN 3 ELSE 0 END")>>,
      <<Lit("CASE "), Field("category"), Lit(" WHEN 'A' THEN 1 WHEN 'B' THEN 2 WHEN 'C' THEN 3 ELSE 0 END")>>),
    BenchmarkFunction("case_simple_match_10",
      <<Lit("CASE "), Field("category"), Lit(" WHEN 'A' THEN 1 WHEN 'B' THEN 2 WHEN 'C' THEN 3 WHEN 'D' THEN 4 WHEN 'E' THEN 5 WHEN 'F' THEN 6 WHEN 'G' THEN 7 WHEN 'H' THEN 8 WHEN 'I' THEN 9 WHEN 'J' THEN 10 ELSE 0 END")>>,
      <<Lit("CASE "), Field("category"), Lit(" WHEN 'A' THEN 1 WHEN 'B' THEN 2 WHEN 'C' THEN 3 WHEN 'D' THEN 4 WHEN 'E' THEN 5 WHEN 'F' THEN 6 WHEN 'G' THEN 7 WHEN 'H' THEN 8 WHEN 'I' THEN 9 WHEN 'J' THEN 10 ELSE 0 END")>>),
    BenchmarkFunction("case_multi_condition",
      <<Lit("CASE WHEN "), Field("int_col"), Lit(" > 50 AND "), Field("float_col"), Lit(" > 0.5 THEN 'both_high' WHEN "), Field("int_col"), Lit(" > 50 OR "), Field("float_col"), Lit(" > 0.5 THEN 'one_high' ELSE 'both_low' END")>>,
      <<Lit("CASE WHEN "), Field("int_col"), Lit(" > 50 AND "), Field("float_col"), Lit(" > 0.5 THEN 'both_high' WHEN "), Field("int_col"), Lit(" > 50 OR "), Field("float_col"), Lit(" > 0.5 THEN 'one_high' ELSE 'both_low' END")>>),
    BenchmarkFunction("case_nested_2_levels",
      <<Lit("CASE WHEN "), Field("int_col"), Lit(" > 50 THEN CASE WHEN "), Field("float_col"), Lit(" > 0.5 THEN 'high_high' ELSE 'high_low' END ELSE CASE WHEN "), Field("float_col"), Lit(" > 0.5 THEN 'low_high' ELSE 'low_low' END END")>>,
      <<Lit("CASE WHEN "), Field("int_col"), Lit(" > 50 THEN CASE WHEN "), Field("float_col"), Lit(" > 0.5 THEN 'high_high' ELSE 'high_low' END ELSE CASE WHEN "), Field("float_col"), Lit(" > 0.5 THEN 'low_high' ELSE 'low_low' END END")>>),
    BenchmarkFunction("case_nested_3_levels",
      <<Lit("CASE WHEN "), Field("int_col"), Lit(" > 66 THEN CASE WHEN "), Field("float_col"), Lit(" > 0.66 THEN CASE WHEN "), Field("int_col2"), Lit(" > 66 THEN 'HHH' ELSE 'HHL' END ELSE 'HL' END WHEN "), Field("int_col"), Lit(" > 33 THEN 'M' ELSE 'L' END")>>,
      <<Lit("CASE WHEN "), Field("int_col"), Lit(" > 66 THEN CASE WHEN "), Field("float_col"), Lit(" > 0.66 THEN CASE WHEN "), Field("int_col2"), Lit(" > 66 THEN 'HHH' ELSE 'HHL' END ELSE 'HL' END WHEN "), Field("int_col"), Lit(" > 33 THEN 'M' ELSE 'L' END")>>),
    BenchmarkFunction("case_expr_result",
      <<Lit("CASE WHEN "), Field("int_col"), Lit(" > 50 THEN "), Field("int_col"), Lit(" * 2 + "), Field("float_col"), Lit(" ELSE "), Field("int_col"), Lit(" / 2 - "), Field("float_col"), Lit(" END")>>,
      <<Lit("CASE WHEN "), Field("int_col"), Lit(" > 50 THEN "), Field("int_col"), Lit(" * 2 + "), Field("float_col"), Lit(" ELSE "), Field("int_col"), Lit(" / 2 - "), Field("float_col"), Lit(" END")>>),
    BenchmarkFunction("case_string_concat",
      <<Lit("CASE WHEN "), Field("int_col"), Lit(" > 50 THEN concat("), Field("str_col"), Lit(", '_high') ELSE concat("), Field("str_col"), Lit(", '_low') END")>>,
      <<Lit("CASE WHEN "), Field("int_col"), Lit(" > 50 THEN concat("), Field("str_col"), Lit(", '_high') ELSE concat("), Field("str_col"), Lit(", '_low') END")>>),
    BenchmarkFunction("coalesce_2",
      <<Lit("COALESCE("), Field("nullable_col"), Lit(", 0)")>>,
      <<Lit("COALESCE("), Field("nullable_col"), Lit(", 0)")>>),
    BenchmarkFunction("coalesce_3",
      <<Lit("COALESCE("), Field("nullable_col"), Lit(", "), Field("nullable_col2"), Lit(", 0)")>>,
      <<Lit("COALESCE("), Field("nullable_col"), Lit(", "), Field("nullable_col2"), Lit(", 0)")>>),
    BenchmarkFunction("coalesce_5",
      <<Lit("COALESCE("), Field("nullable_col"), Lit(", "), Field("nullable_col2"), Lit(", "), Field("nullable_col"), Lit(", "), Field("nullable_col2"), Lit(", 0)")>>,
      <<Lit("COALESCE("), Field("nullable_col"), Lit(", "), Field("nullable_col2"), Lit(", "), Field("nullable_col"), Lit(", "), Field("nullable_col2"), Lit(", 0)")>>),
    BenchmarkFunction("nullif_int",
      <<Lit("NULLIF("), Field("int_col"), Lit(", 50)")>>,
      <<Lit("NULLIF("), Field("int_col"), Lit(", 50)")>>),
    BenchmarkFunction("nullif_string",
      <<Lit("NULLIF("), Field("category"), Lit(", 'A')")>>,
      <<Lit("NULLIF("), Field("category"), Lit(", 'A')")>>),
    BenchmarkFunction("case_null_check",
      <<Lit("CASE WHEN "), Field("nullable_col"), Lit(" IS NULL THEN 'missing' WHEN "), Field("nullable_col"), Lit(" > 50 THEN 'high' ELSE 'low' END")>>,
      <<Lit("CASE WHEN "), Field("nullable_col"), Lit(" IS NULL THEN 'missing' WHEN "), Field("nullable_col"), Lit(" > 50 THEN 'high' ELSE 'low' END")>>),
    BenchmarkFunction("case_null_propagation",
      <<Lit("CASE WHEN "), Field("int_col"), Lit(" > 50 THEN "), Field("nullable_col"), Lit(" ELSE "), Field("nullable_col2"), Lit(" END")>>,
      <<Lit("CASE WHEN "), Field("int_col"), Lit(" > 50 THEN "), Field("nullable_col"), Lit(" ELSE "), Field("nullable_col2"), Lit(" END")>>),
    BenchmarkFunction("case_bucketing",
      <<Lit("CASE WHEN "), Field("float_col"), Lit(" < 0.1 THEN 0 WHEN "), Field("float_col"), Lit(" < 0.2 THEN 1 WHEN "), Field("float_col"), Lit(" < 0.3 THEN 2 WHEN "), Field("float_col"), Lit(" < 0.4 THEN 3 WHEN "), Field("float_col"), Lit(" < 0.5 THEN 4 WHEN "), Field("float_col"), Lit(" < 0.6 THEN 5 WHEN "), Field("float_col"), Lit(" < 0.7 THEN 6 WHEN "), Field("float_col"), Lit(" < 0.8 THEN 7 WHEN "), Field("float_col"), Lit(" < 0.9 THEN 8 ELSE 9 END")>>,
      <<Lit("CASE WHEN "), Field("float_col"), Lit(" < 0.1 THEN 0 WHEN "), Field("float_col"), Lit(" < 0.2 THEN 1 WHEN "), Field("float_col"), Lit(" < 0.3 THEN 2 WHEN "), Field("float_col"), Lit(" < 0.4 THEN 3 WHEN "), Field("float_col"), Lit(" < 0.5 THEN 4 WHEN "), Field("float_col"), Lit(" < 0.6 THEN 5 WHEN "), Field("float_col"), Lit(" < 0.7 THEN 6 WHEN "), Field("float_col"), Lit(" < 0.8 THEN 7 WHEN "), Field("float_col"), Lit(" < 0.9 THEN 8 ELSE 9 END")>>),
    BenchmarkFunction("case_range_lookup",
      <<Lit("CASE WHEN "), Field("int_col"), Lit(" BETWEEN 0 AND 10 THEN 'tier1' WHEN "), Field("int_col"), Lit(" BETWEEN 11 AND 25 THEN 'tier2' WHEN "), Field("int_col"), Lit(" BETWEEN 26 AND 50 THEN 'tier3' WHEN "), Field("int_col"), Lit(" BETWEEN 51 AND 75 THEN 'tier4' ELSE 'tier5' END")>>,
      <<Lit("CASE WHEN "), Field("int_col"), Lit(" BETWEEN 0 AND 10 THEN 'tier1' WHEN "), Field("int_col"), Lit(" BETWEEN 11 AND 25 THEN 'tier2' WHEN "), Field("int_col"), Lit(" BETWEEN 26 AND 50 THEN 'tier3' WHEN "), Field("int_col"), Lit(" BETWEEN 51 AND 75 THEN 'tier4' ELSE 'tier5' END")>>),
    BenchmarkFunction("case_complex_business",
      <<Lit("CASE WHEN "), Field("category"), Lit(" = 'A' AND "), Field("int_col"), Lit(" > 80 THEN 'premium_a' WHEN "), Field("category"), Lit(" = 'A' THEN 'standard_a' WHEN "), Field("category"), Lit(" = 'B' AND "), Field("float_col"), Lit(" > 0.7 THEN 'premium_b' WHEN "), Field("category"), Lit(" = 'B' THEN 'standard_b' WHEN "), Field("category"), Lit(" IN ('C', 'D', 'E') THEN 'bulk' ELSE 'other' END")>>,
      <<Lit("CASE WHEN "), Field("category"), Lit(" = 'A' AND "), Field("int_col"), Lit(" > 80 THEN 'premium_a' WHEN "), Field("category"), Lit(" = 'A' THEN 'standard_a' WHEN "), Field("category"), Lit(" = 'B' AND "), Field("float_col"), Lit(" > 0.7 THEN 'premium_b' WHEN "), Field("category"), Lit(" = 'B' THEN 'standard_b' WHEN "), Field("category"), Lit(" IN ('C', 'D', 'E') THEN 'bulk' ELSE 'other' END")>>),
    BenchmarkFunction("case_boolean_result",
      <<Lit("CASE WHEN "), Field("int_col"), Lit(" > 50 THEN TRUE ELSE FALSE END")>>,
      <<Lit("CASE WHEN "), Field("int_col"), Lit(" > 50 THEN TRUE ELSE FALSE END")>>),
    BenchmarkFunction("greatest_2",
      <<Lit("GREATEST("), Field("int_col"), Lit(", "), Field("int_col2"), Lit(")")>>,
      <<Lit("GREATEST("), Field("int_col"), Lit(", "), Field("int_col2"), Lit(")")>>),
    BenchmarkFunction("least_2",
      <<Lit("LEAST("), Field("int_col"), Lit(", "), Field("int_col2"), Lit(")")>>,
      <<Lit("LEAST("), Field("int_col"), Lit(", "), Field("int_col2"), Lit(")")>>),
    BenchmarkFunction("greatest_3",
      <<Lit("GREATEST("), Field("int_col"), Lit(", "), Field("int_col2"), Lit(", "), Field("nullable_col"), Lit(")")>>,
      <<Lit("GREATEST("), Field("int_col"), Lit(", "), Field("int_col2"), Lit(", "), Field("nullable_col"), Lit(")")>>)
  >>

strings_FUNCTIONS ==
  <<
    BenchmarkFunction("trim",
      <<Lit("trim("), Field("col"), Lit(")")>>,
      <<Lit("trim("), Field("col"), Lit(")")>>),
    BenchmarkFunction("ltrim",
      <<Lit("ltrim("), Field("col"), Lit(")")>>,
      <<Lit("ltrim("), Field("col"), Lit(")")>>),
    BenchmarkFunction("rtrim",
      <<Lit("rtrim("), Field("col"), Lit(")")>>,
      <<Lit("rtrim("), Field("col"), Lit(")")>>),
    BenchmarkFunction("lower",
      <<Lit("lower("), Field("col"), Lit(")")>>,
      <<Lit("lower("), Field("col"), Lit(")")>>),
    BenchmarkFunction("upper",
      <<Lit("upper("), Field("col"), Lit(")")>>,
      <<Lit("upper("), Field("col"), Lit(")")>>),
    BenchmarkFunction("length",
      <<Lit("length("), Field("col"), Lit(")")>>,
      <<Lit("length("), Field("col"), Lit(")")>>),
    BenchmarkFunction("char_length",
      <<Lit("char_length("), Field("col"), Lit(")")>>,
      <<Lit("length("), Field("col"), Lit(")")>>),
    BenchmarkFunction("reverse",
      <<Lit("reverse("), Field("col"), Lit(")")>>,
      <<Lit("reverse("), Field("col"), Lit(")")>>),
    BenchmarkFunction("repeat_3",
      <<Lit("repeat("), Field("col"), Lit(", 3)")>>,
      <<Lit("repeat("), Field("col"), Lit(", 3)")>>),
    BenchmarkFunction("concat",
      <<Lit("concat("), Field("col"), Lit(", "), Field("col"), Lit(")")>>,
      <<Lit("concat("), Field("col"), Lit(", "), Field("col"), Lit(")")>>),
    BenchmarkFunction("concat_ws",
      <<Lit("concat_ws('-', "), Field("col"), Lit(", "), Field("col"), Lit(")")>>,
      <<Lit("concat_ws('-', "), Field("col"), Lit(", "), Field("col"), Lit(")")>>),
    BenchmarkFunction("substring_1_5",
      <<Lit("substring("), Field("col"), Lit(", 1, 5)")>>,
      <<Lit("substring("), Field("col"), Lit(", 1, 5)")>>),
    BenchmarkFunction("left_5",
      <<Lit("left("), Field("col"), Lit(", 5)")>>,
      <<Lit("left("), Field("col"), Lit(", 5)")>>),
    BenchmarkFunction("right_5",
      <<Lit("right("), Field("col"), Lit(", 5)")>>,
      <<Lit("right("), Field("col"), Lit(", 5)")>>),
    BenchmarkFunction("lpad_20",
      <<Lit("lpad("), Field("col"), Lit(", 20, '*')")>>,
      <<Lit("lpad("), Field("col"), Lit(", 20, '*')")>>),
    BenchmarkFunction("rpad_20",
      <<Lit("rpad("), Field("col"), Lit(", 20, '*')")>>,
      <<Lit("rpad("), Field("col"), Lit(", 20, '*')")>>),
    BenchmarkFunction("replace",
      <<Lit("replace("), Field("col"), Lit(", 'a', 'X')")>>,
      <<Lit("replace("), Field("col"), Lit(", 'a', 'X')")>>),
    BenchmarkFunction("translate",
      <<Lit("translate("), Field("col"), Lit(", 'aeiou', '12345')")>>,
      <<Lit("translate("), Field("col"), Lit(", 'aeiou', '12345')")>>),
    BenchmarkFunction("ascii",
      <<Lit("ascii("), Field("col"), Lit(")")>>,
      <<Lit("ascii("), Field("col"), Lit(")")>>),
    BenchmarkFunction("md5",
      <<Lit("md5("), Field("col"), Lit(")")>>,
      <<Lit("md5("), Field("col"), Lit(")")>>),
    BenchmarkFunction("sha256",
      <<Lit("sha256("), Field("col"), Lit(")")>>,
      <<Lit("sha256("), Field("col"), Lit(")")>>),
    BenchmarkFunction("btrim",
      <<Lit("btrim("), Field("col"), Lit(", ' ')")>>,
      <<Lit("trim("), Field("col"), Lit(", ' ')")>>),
    BenchmarkFunction("split_part",
      <<Lit("split_part("), Field("col"), Lit(", ' ', 1)")>>,
      <<Lit("split_part("), Field("col"), Lit(", ' ', 1)")>>),
    BenchmarkFunction("starts_with",
      <<Lit("starts_with("), Field("col"), Lit(", 'test')")>>,
      <<Lit("starts_with("), Field("col"), Lit(", 'test')")>>),
    BenchmarkFunction("ends_with",
      <<Lit("ends_with("), Field("col"), Lit(", 'data')")>>,
      <<Lit("ends_with("), Field("col"), Lit(", 'data')")>>),
    BenchmarkFunction("strpos",
      <<Lit("strpos("), Field("col"), Lit(", 'e')")>>,
      <<Lit("strpos("), Field("col"), Lit(", 'e')")>>),
    BenchmarkFunction("regexp_replace",
      <<Lit("regexp_replace("), Field("col"), Lit(", '[aeiou]', '*')")>>,
      <<Lit("regexp_replace("), Field("col"), Lit(", '[aeiou]', '*', 'g')")>>)
  >>

temporal_FUNCTIONS ==
  <<
    BenchmarkFunction("year",
      <<Lit("year("), Field("col"), Lit(")")>>,
      <<Lit("year("), Field("col"), Lit(")")>>),
    BenchmarkFunction("month",
      <<Lit("month("), Field("col"), Lit(")")>>,
      <<Lit("month("), Field("col"), Lit(")")>>),
    BenchmarkFunction("day",
      <<Lit("day("), Field("col"), Lit(")")>>,
      <<Lit("day("), Field("col"), Lit(")")>>),
    BenchmarkFunction("hour",
      <<Lit("hour("), Field("col"), Lit(")")>>,
      <<Lit("hour("), Field("col"), Lit(")")>>),
    BenchmarkFunction("minute",
      <<Lit("minute("), Field("col"), Lit(")")>>,
      <<Lit("minute("), Field("col"), Lit(")")>>),
    BenchmarkFunction("second",
      <<Lit("second("), Field("col"), Lit(")")>>,
      <<Lit("second("), Field("col"), Lit(")")>>),
    BenchmarkFunction("week",
      <<Lit("week("), Field("col"), Lit(")")>>,
      <<Lit("week("), Field("col"), Lit(")")>>),
    BenchmarkFunction("quarter",
      <<Lit("quarter("), Field("col"), Lit(")")>>,
      <<Lit("quarter("), Field("col"), Lit(")")>>),
    BenchmarkFunction("day_of_week",
      <<Lit("extract(dow from "), Field("col"), Lit(")")>>,
      <<Lit("dayofweek("), Field("col"), Lit(")")>>),
    BenchmarkFunction("day_of_year",
      <<Lit("extract(doy from "), Field("col"), Lit(")")>>,
      <<Lit("dayofyear("), Field("col"), Lit(")")>>),
    BenchmarkFunction("date_trunc_day",
      <<Lit("date_trunc('day', "), Field("col"), Lit(")")>>,
      <<Lit("date_trunc('day', "), Field("col"), Lit(")")>>),
    BenchmarkFunction("date_trunc_month",
      <<Lit("date_trunc('month', "), Field("col"), Lit(")")>>,
      <<Lit("date_trunc('month', "), Field("col"), Lit(")")>>),
    BenchmarkFunction("date_trunc_year",
      <<Lit("date_trunc('year', "), Field("col"), Lit(")")>>,
      <<Lit("date_trunc('year', "), Field("col"), Lit(")")>>),
    BenchmarkFunction("date_trunc_hour",
      <<Lit("date_trunc('hour', "), Field("col"), Lit(")")>>,
      <<Lit("date_trunc('hour', "), Field("col"), Lit(")")>>),
    BenchmarkFunction("date_add_days",
      <<Field("col"), Lit(" + interval '7 days'")>>,
      <<Field("col"), Lit(" + interval '7 days'")>>),
    BenchmarkFunction("date_sub_days",
      <<Field("col"), Lit(" - interval '7 days'")>>,
      <<Field("col"), Lit(" - interval '7 days'")>>),
    BenchmarkFunction("date_add_months",
      <<Field("col"), Lit(" + interval '1 month'")>>,
      <<Field("col"), Lit(" + interval '1 month'")>>),
    BenchmarkFunction("to_char",
      <<Lit("to_char("), Field("col"), Lit(", '%Y-%m-%d')")>>,
      <<Lit("strftime("), Field("col"), Lit(", '%Y-%m-%d')")>>),
    BenchmarkFunction("date_part_hour",
      <<Lit("date_part('hour', "), Field("col"), Lit(")")>>,
      <<Lit("date_part('hour', "), Field("col"), Lit(")")>>),
    BenchmarkFunction("date_part_minute",
      <<Lit("date_part('minute', "), Field("col"), Lit(")")>>,
      <<Lit("date_part('minute', "), Field("col"), Lit(")")>>),
    BenchmarkFunction("is_past",
      <<Field("col"), Lit(" < now()")>>,
      <<Field("col"), Lit(" < now()")>>)
  >>

numeric_FUNCTIONS ==
  <<
    BenchmarkFunction("abs",
      <<Lit("abs("), Field("col"), Lit(")")>>,
      <<Lit("abs("), Field("col"), Lit(")")>>),
    BenchmarkFunction("ceil",
      <<Lit("ceil("), Field("col"), Lit(")")>>,
      <<Lit("ceil("), Field("col"), Lit(")")>>),
    BenchmarkFunction("floor",
      <<Lit("floor("), Field("col"), Lit(")")>>,
      <<Lit("floor("), Field("col"), Lit(")")>>),
    BenchmarkFunction("round",
      <<Lit("round("), Field("col"), Lit(", 2)")>>,
      <<Lit("round("), Field("col"), Lit(", 2)")>>),
    BenchmarkFunction("trunc",
      <<Lit("trunc("), Field("col"), Lit(")")>>,
      <<Lit("trunc("), Field("col"), Lit(")")>>),
    BenchmarkFunction("signum",
      <<Lit("signum("), Field("col"), Lit(")")>>,
      <<Lit("sign("), Field("col"), Lit(")")>>),
    BenchmarkFunction("sqrt",
      <<Lit("sqrt(abs("), Field("col"), Lit("))")>>,
      <<Lit("sqrt(abs("), Field("col"), Lit("))")>>),
    BenchmarkFunction("cbrt",
      <<Lit("cbrt("), Field("col"), Lit(")")>>,
      <<Lit("cbrt("), Field("col"), Lit(")")>>),
    BenchmarkFunction("power",
      <<Lit("power("), Field("col"), Lit(", 2)")>>,
      <<Lit("power("), Field("col"), Lit(", 2)")>>),
    BenchmarkFunction("exp",
      <<Lit("exp("), Field("col"), Lit(" / 100)")>>,
      <<Lit("exp("), Field("col"), Lit(" / 100)")>>),
    BenchmarkFunction("ln",
      <<Lit("ln(abs("), Field("col"), Lit(") + 1)")>>,
      <<Lit("ln(abs("), Field("col"), Lit(") + 1)")>>),
    BenchmarkFunction("log10",
      <<Lit("log10(abs("), Field("col"), Lit(") + 1)")>>,
      <<Lit("log10(abs("), Field("col"), Lit(") + 1)")>>),
    BenchmarkFunction("log2",
      <<Lit("log2(abs("), Field("col"), Lit(") + 1)")>>,
      <<Lit("log2(abs("), Field("col"), Lit(") + 1)")>>),
    BenchmarkFunction("log",
      <<Lit("log(2, abs("), Field("col"), Lit(") + 1)")>>,
      <<Lit("log(2, abs("), Field("col"), Lit(") + 1)")>>),
    BenchmarkFunction("sin",
      <<Lit("sin("), Field("col"), Lit(")")>>,
      <<Lit("sin("), Field("col"), Lit(")")>>),
    BenchmarkFunction("cos",
      <<Lit("cos("), Field("col"), Lit(")")>>,
      <<Lit("cos("), Field("col"), Lit(")")>>),
    BenchmarkFunction("tan",
      <<Lit("tan("), Field("col"), Lit(")")>>,
      <<Lit("tan("), Field("col"), Lit(")")>>),
    BenchmarkFunction("asin",
      <<Lit("asin(sin("), Field("col"), Lit("))")>>,
      <<Lit("asin(sin("), Field("col"), Lit("))")>>),
    BenchmarkFunction("acos",
      <<Lit("acos(cos("), Field("col"), Lit("))")>>,
      <<Lit("acos(cos("), Field("col"), Lit("))")>>),
    BenchmarkFunction("atan",
      <<Lit("atan("), Field("col"), Lit(")")>>,
      <<Lit("atan("), Field("col"), Lit(")")>>),
    BenchmarkFunction("atan2",
      <<Lit("atan2("), Field("col"), Lit(", "), Field("col"), Lit(" + 1)")>>,
      <<Lit("atan2("), Field("col"), Lit(", "), Field("col"), Lit(" + 1)")>>),
    BenchmarkFunction("sinh",
      <<Lit("sinh("), Field("col"), Lit(" / 100)")>>,
      <<Lit("sinh("), Field("col"), Lit(" / 100)")>>),
    BenchmarkFunction("cosh",
      <<Lit("cosh("), Field("col"), Lit(" / 100)")>>,
      <<Lit("cosh("), Field("col"), Lit(" / 100)")>>),
    BenchmarkFunction("tanh",
      <<Lit("tanh("), Field("col"), Lit(")")>>,
      <<Lit("tanh("), Field("col"), Lit(")")>>),
    BenchmarkFunction("degrees",
      <<Lit("degrees("), Field("col"), Lit(")")>>,
      <<Lit("degrees("), Field("col"), Lit(")")>>),
    BenchmarkFunction("radians",
      <<Lit("radians("), Field("col"), Lit(")")>>,
      <<Lit("radians("), Field("col"), Lit(")")>>),
    BenchmarkFunction("pi",
      <<Lit("pi() * "), Field("col")>>,
      <<Lit("pi() * "), Field("col")>>),
    BenchmarkFunction("mod",
      <<Lit("CAST("), Field("col"), Lit(" AS BIGINT) % 7")>>,
      <<Lit("CAST("), Field("col"), Lit(" AS BIGINT) % 7")>>),
    BenchmarkFunction("gcd",
      <<Lit("gcd(CAST("), Field("col"), Lit(" AS BIGINT), 12)")>>,
      <<Lit("gcd(CAST("), Field("col"), Lit(" AS BIGINT), 12)")>>),
    BenchmarkFunction("lcm",
      <<Lit("lcm(CAST(abs("), Field("col"), Lit(") AS BIGINT) % 1000 + 1, 12)")>>,
      <<Lit("lcm(CAST(abs("), Field("col"), Lit(") AS BIGINT) % 1000 + 1, 12)")>>),
    BenchmarkFunction("factorial",
      <<Lit("factorial(CAST(abs("), Field("col"), Lit(") AS BIGINT) % 20)")>>,
      <<Lit("factorial(CAST(abs("), Field("col"), Lit(") AS INTEGER) % 20)")>>),
    BenchmarkFunction("greatest",
      <<Lit("greatest("), Field("col"), Lit(", "), Field("col"), Lit(" * 2, 0)")>>,
      <<Lit("greatest("), Field("col"), Lit(", "), Field("col"), Lit(" * 2, 0)")>>),
    BenchmarkFunction("least",
      <<Lit("least("), Field("col"), Lit(", "), Field("col"), Lit(" * 2, 0)")>>,
      <<Lit("least("), Field("col"), Lit(", "), Field("col"), Lit(" * 2, 0)")>>),
    BenchmarkFunction("coalesce",
      <<Lit("coalesce("), Field("col"), Lit(", 0)")>>,
      <<Lit("coalesce("), Field("col"), Lit(", 0)")>>),
    BenchmarkFunction("nullif",
      <<Lit("nullif("), Field("col"), Lit(", 0)")>>,
      <<Lit("nullif("), Field("col"), Lit(", 0)")>>),
    BenchmarkFunction("bit_and",
      <<Lit("CAST("), Field("col"), Lit(" AS BIGINT) & 255")>>,
      <<Lit("CAST("), Field("col"), Lit(" AS BIGINT) & 255")>>),
    BenchmarkFunction("bit_or",
      <<Lit("CAST("), Field("col"), Lit(" AS BIGINT) | 255")>>,
      <<Lit("CAST("), Field("col"), Lit(" AS BIGINT) | 255")>>),
    BenchmarkFunction("bit_xor",
      <<Lit("CAST("), Field("col"), Lit(" AS BIGINT) ^ 255")>>,
      <<Lit("xor(CAST("), Field("col"), Lit(" AS BIGINT), 255)")>>)
  >>

conditional_FUNCTIONS ==
  <<
    BenchmarkFunction("case_simple",
      <<Lit("CASE "), Field("col"), Lit(" WHEN 1 THEN 'one' WHEN 2 THEN 'two' ELSE 'other' END")>>,
      <<Lit("CASE "), Field("col"), Lit(" WHEN 1 THEN 'one' WHEN 2 THEN 'two' ELSE 'other' END")>>),
    BenchmarkFunction("case_searched",
      <<Lit("CASE WHEN "), Field("col"), Lit(" < 0 THEN 'negative' WHEN "), Field("col"), Lit(" = 0 THEN 'zero' ELSE 'positive' END")>>,
      <<Lit("CASE WHEN "), Field("col"), Lit(" < 0 THEN 'negative' WHEN "), Field("col"), Lit(" = 0 THEN 'zero' ELSE 'positive' END")>>),
    BenchmarkFunction("case_many_branches",
      <<Lit("CASE WHEN "), Field("col"), Lit(" < -50 THEN 'a' WHEN "), Field("col"), Lit(" < -25 THEN 'b' WHEN "), Field("col"), Lit(" < 0 THEN 'c' WHEN "), Field("col"), Lit(" < 25 THEN 'd' WHEN "), Field("col"), Lit(" < 50 THEN 'e' ELSE 'f' END")>>,
      <<Lit("CASE WHEN "), Field("col"), Lit(" < -50 THEN 'a' WHEN "), Field("col"), Lit(" < -25 THEN 'b' WHEN "), Field("col"), Lit(" < 0 THEN 'c' WHEN "), Field("col"), Lit(" < 25 THEN 'd' WHEN "), Field("col"), Lit(" < 50 THEN 'e' ELSE 'f' END")>>),
    BenchmarkFunction("case_nested",
      <<Lit("CASE WHEN "), Field("col"), Lit(" > 0 THEN CASE WHEN "), Field("col"), Lit(" > 50 THEN 'high' ELSE 'low' END ELSE 'negative' END")>>,
      <<Lit("CASE WHEN "), Field("col"), Lit(" > 0 THEN CASE WHEN "), Field("col"), Lit(" > 50 THEN 'high' ELSE 'low' END ELSE 'negative' END")>>),
    BenchmarkFunction("coalesce_2",
      <<Lit("COALESCE(nullable_col, 0)")>>,
      <<Lit("COALESCE(nullable_col, 0)")>>),
    BenchmarkFunction("coalesce_3",
      <<Lit("COALESCE(nullable_col, "), Field("col"), Lit(", 0)")>>,
      <<Lit("COALESCE(nullable_col, "), Field("col"), Lit(", 0)")>>),
    BenchmarkFunction("coalesce_many",
      <<Lit("COALESCE(nullable_col, NULL, NULL, "), Field("col"), Lit(", 0)")>>,
      <<Lit("COALESCE(nullable_col, NULL, NULL, "), Field("col"), Lit(", 0)")>>),
    BenchmarkFunction("nullif",
      <<Lit("NULLIF("), Field("col"), Lit(", 0)")>>,
      <<Lit("NULLIF("), Field("col"), Lit(", 0)")>>),
    BenchmarkFunction("nullif_expr",
      <<Lit("NULLIF("), Field("col"), Lit(" % 10, 5)")>>,
      <<Lit("NULLIF("), Field("col"), Lit(" % 10, 5)")>>),
    BenchmarkFunction("ifnull",
      <<Lit("IFNULL(nullable_col, -1)")>>,
      <<Lit("IFNULL(nullable_col, -1)")>>),
    BenchmarkFunction("nvl",
      <<Lit("NVL(nullable_col, -1)")>>,
      <<Lit("IFNULL(nullable_col, -1)")>>),
    BenchmarkFunction("greatest_2",
      <<Lit("GREATEST("), Field("col"), Lit(", "), Field("col"), Lit(" * -1)")>>,
      <<Lit("GREATEST("), Field("col"), Lit(", "), Field("col"), Lit(" * -1)")>>),
    BenchmarkFunction("greatest_3",
      <<Lit("GREATEST("), Field("col"), Lit(", 0, -100)")>>,
      <<Lit("GREATEST("), Field("col"), Lit(", 0, -100)")>>),
    BenchmarkFunction("least_2",
      <<Lit("LEAST("), Field("col"), Lit(", "), Field("col"), Lit(" * -1)")>>,
      <<Lit("LEAST("), Field("col"), Lit(", "), Field("col"), Lit(" * -1)")>>),
    BenchmarkFunction("least_3",
      <<Lit("LEAST("), Field("col"), Lit(", 0, 100)")>>,
      <<Lit("LEAST("), Field("col"), Lit(", 0, 100)")>>),
    BenchmarkFunction("and_simple",
      <<Field("col"), Lit(" > 0 AND "), Field("col"), Lit(" < 50")>>,
      <<Field("col"), Lit(" > 0 AND "), Field("col"), Lit(" < 50")>>),
    BenchmarkFunction("or_simple",
      <<Field("col"), Lit(" < -50 OR "), Field("col"), Lit(" > 50")>>,
      <<Field("col"), Lit(" < -50 OR "), Field("col"), Lit(" > 50")>>),
    BenchmarkFunction("not",
      <<Lit("NOT ("), Field("col"), Lit(" > 0)")>>,
      <<Lit("NOT ("), Field("col"), Lit(" > 0)")>>),
    BenchmarkFunction("and_or_mixed",
      <<Lit("("), Field("col"), Lit(" > 0 AND "), Field("col"), Lit(" < 50) OR "), Field("col"), Lit(" < -50")>>,
      <<Lit("("), Field("col"), Lit(" > 0 AND "), Field("col"), Lit(" < 50) OR "), Field("col"), Lit(" < -50")>>),
    BenchmarkFunction("complex_bool",
      <<Lit("("), Field("col"), Lit(" > 0 AND "), Field("col"), Lit(" < 25) OR ("), Field("col"), Lit(" < 0 AND "), Field("col"), Lit(" > -25) OR "), Field("col"), Lit(" = 0")>>,
      <<Lit("("), Field("col"), Lit(" > 0 AND "), Field("col"), Lit(" < 25) OR ("), Field("col"), Lit(" < 0 AND "), Field("col"), Lit(" > -25) OR "), Field("col"), Lit(" = 0")>>),
    BenchmarkFunction("eq",
      <<Field("col"), Lit(" = 0")>>,
      <<Field("col"), Lit(" = 0")>>),
    BenchmarkFunction("neq",
      <<Field("col"), Lit(" <> 0")>>,
      <<Field("col"), Lit(" <> 0")>>),
    BenchmarkFunction("lt",
      <<Field("col"), Lit(" < 0")>>,
      <<Field("col"), Lit(" < 0")>>),
    BenchmarkFunction("lte",
      <<Field("col"), Lit(" <= 0")>>,
      <<Field("col"), Lit(" <= 0")>>),
    BenchmarkFunction("gt",
      <<Field("col"), Lit(" > 0")>>,
      <<Field("col"), Lit(" > 0")>>),
    BenchmarkFunction("gte",
      <<Field("col"), Lit(" >= 0")>>,
      <<Field("col"), Lit(" >= 0")>>),
    BenchmarkFunction("between",
      <<Field("col"), Lit(" BETWEEN -50 AND 50")>>,
      <<Field("col"), Lit(" BETWEEN -50 AND 50")>>),
    BenchmarkFunction("not_between",
      <<Field("col"), Lit(" NOT BETWEEN -25 AND 25")>>,
      <<Field("col"), Lit(" NOT BETWEEN -25 AND 25")>>),
    BenchmarkFunction("in_list_small",
      <<Field("col"), Lit(" IN (1, 2, 3, 4, 5)")>>,
      <<Field("col"), Lit(" IN (1, 2, 3, 4, 5)")>>),
    BenchmarkFunction("in_list_medium",
      <<Field("col"), Lit(" IN (1, 2, 3, 4, 5, 6, 7, 8, 9, 10)")>>,
      <<Field("col"), Lit(" IN (1, 2, 3, 4, 5, 6, 7, 8, 9, 10)")>>),
    BenchmarkFunction("not_in",
      <<Field("col"), Lit(" NOT IN (1, 2, 3, 4, 5)")>>,
      <<Field("col"), Lit(" NOT IN (1, 2, 3, 4, 5)")>>),
    BenchmarkFunction("is_null",
      <<Lit("nullable_col IS NULL")>>,
      <<Lit("nullable_col IS NULL")>>),
    BenchmarkFunction("is_not_null",
      <<Lit("nullable_col IS NOT NULL")>>,
      <<Lit("nullable_col IS NOT NULL")>>),
    BenchmarkFunction("if_simple",
      <<Lit("CASE WHEN "), Field("col"), Lit(" > 0 THEN 'positive' ELSE 'non-positive' END")>>,
      <<Lit("IF("), Field("col"), Lit(" > 0, 'positive', 'non-positive')")>>),
    BenchmarkFunction("if_numeric",
      <<Lit("CASE WHEN "), Field("col"), Lit(" > 0 THEN "), Field("col"), Lit(" ELSE 0 END")>>,
      <<Lit("IF("), Field("col"), Lit(" > 0, "), Field("col"), Lit(", 0)")>>),
    BenchmarkFunction("if_nested",
      <<Lit("CASE WHEN "), Field("col"), Lit(" > 0 THEN CASE WHEN "), Field("col"), Lit(" > 50 THEN 'high' ELSE 'low' END ELSE 'negative' END")>>,
      <<Lit("IF("), Field("col"), Lit(" > 0, IF("), Field("col"), Lit(" > 50, 'high', 'low'), 'negative')")>>)
  >>

(***************************************************************************)
(* Python values used throughout.                                          *)
(***************************************************************************)
\* A call that returned `value`.
Returned(value) == [raised |-> "none", value |-> value]

\* A call that raised an exception of type `type` carrying `detail`.
Raised(type, detail) == [raised |-> type, value |-> detail]

\* A dict literal, kept as its insertion-ordered sequence of <<key, value>>.
Keys(dict) == [i \in 1..Len(dict) |-> dict[i][1]]

\* `key in dict`
HasKey(dict, key) == \E i \in 1..Len(dict) : dict[i][1] = key

\* `dict[key]` for a key the dict holds
Lookup(dict, key) == dict[CHOOSE i \in 1..Len(dict) : dict[i][1] = key][2]

RECURSIVE Join(_)
\* ''.join(pieces)
Join(pieces) ==
  IF Len(pieces) = 0 THEN "" ELSE Head(pieces) \o Join(Tail(pieces))

(***************************************************************************)
(* The suites package: Suite records and the SUITES registry.              *)
(***************************************************************************)
Suite(name, description, column_name, functions, generate_data) ==
  [name |-> name, description |-> description, column_name |-> column_name,
   functions |-> functions, generate_data |-> generate_data]

strings_SUITE ==
  Suite("strings", "String function benchmarks", "str_col",
        strings_FUNCTIONS, "strings.generate_data")

temporal_SUITE ==
  Suite("temporal", "Date/time function benchmarks", "ts_col",
        temporal_FUNCTIONS, "temporal.generate_data")

numeric_SUITE ==
  Suite("numeric", "Numeric function benchmarks", "num_col",
        numeric_FUNCTIONS, "numeric.generate_data")

conditional_SUITE ==
  Suite("conditional", "Conditional/logic function benchmarks", "val_col",
        conditional_FUNCTIONS, "conditional.generate_data")

SUITES ==
  << <<"strings", strings_SUITE>>,
     <<"temporal", temporal_SUITE>>,
     <<"numeric", numeric_SUITE>> >>

\* get_suite with the membership test dropped: a missing name falls back to
\* the first registered suite.
get_suite_default(name) ==
  IF HasKey(SUITES, name) THEN Returned(Lookup(SUITES, name))
  ELSE Returned(SUITES[1][2])

get_suite(name) ==
  IF ~HasKey(SUITES, name)
  THEN Raised("ValueError", [unknown |-> name, available |-> Keys(SUITES)])
  ELSE Returned(Lookup(SUITES, name))

list_suites == Returned(Keys(SUITES))

\* The binding of the one placeholder {col} of a package suite: its column_name.
SuiteColumns(suite) == [col |-> suite.column_name]

(***************************************************************************)
(* string_functions_benchmark.py: the SUITES dict of dicts.                *)
(***************************************************************************)
Sfb_SUITES ==
  << <<"string",
       [name |-> "String Functions", functions |-> Sfb_STRING_FUNCTIONS,
        data_generator |-> "string_functions_benchmark.generate_string_data",
        columns |-> [str_col |-> "str_col"]]>>,
     <<"temporal",
       [name |-> "Temporal Functions", functions |-> Sfb_TEMPORAL_FUNCTIONS,
        data_generator |-> "string_functions_benchmark.generate_temporal_data",
        columns |-> [ts_col |-> "ts_col"]]>>,
     <<"conditional",
       [name |-> "Conditional Expressions", functions |-> Sfb_CONDITIONAL_FUNCTIONS,
        data_generator |-> "string_functions_benchmark.generate_conditional_data",
        columns |-> [int_col |-> "int_col", int_col2 |-> "int_col2",
                     float_col |-> "float_col", nullable_col |-> "nullable_col",
                     nullable_col2 |-> "nullable_col2", category |-> "category",
                     str_col |-> "str_col"]]>> >>

\* The binding keyed by the column's own name, as the SUITES dict of
\* string_functions_benchmark.py keys it.
Micro_columns_by_column == [str_col |-> "str_col"]

\* microbenchmarks.py: the single column binding, format(col=col).
Micro_columns == [col |-> "str_col"]

(***************************************************************************)
(* Template expansion: str.format with the bindings as keyword arguments.  *)
(***************************************************************************)
\* The replacement fields of a template that `columns` does not bind.
MissingFields(template, columns) ==
  {i \in 1..Len(template) :
     template[i].kind = "field" /\ template[i].text \notin DOMAIN columns}

\* str.format: KeyError on the first field without a binding, else the text
\* with every field replaced by its column name.
Format(template, columns) ==
  LET missing == MissingFields(template, columns)
  IN IF missing # {}
     THEN Raised("KeyError",
                 template[CHOOSE i \in missing : \A j \in missing : i <= j].text)
     ELSE Returned(Join([i \in 1..Len(template) |->
            IF template[i].kind = "field"
            THEN columns[template[i].text] ELSE template[i].text]))

\* The two expressions of one case: df_expr and duck_expr.
ExpandTemplates(func, columns) ==
  [df |-> Format(func.datafusion_expr, columns),
   duck |-> Format(func.duckdb_expr, columns)]

\* Every registered suite of the three catalogs, with its cases and bindings.
Catalogs ==
  {[registry |-> "microbenchmarks", key |-> "string",
    functions |-> Micro_STRING_FUNCTIONS, columns |-> Micro_columns]}
  \cup {[registry |-> "string_functions_benchmark", key |-> Sfb_SUITES[i][1],
         functions |-> Sfb_SUITES[i][2].functions,
         columns |-> Sfb_SUITES[i][2].columns] : i \in 1..Len(Sfb_SUITES)}
  \cup {[registry |-> "suites", key |-> SUITES[i][1],
         functions |-> SUITES[i][2].functions,
         columns |-> SuiteColumns(SUITES[i][2])] : i \in 1..Len(SUITES)}

\* Suite names a caller may ask for: the registered ones and some that are not.
SuiteNames ==
  {"strings", "temporal", "numeric", "conditional", "string", "", "Strings"}

(***************************************************************************)
(* The pseudo-random stream of Python's `random` module, shared by every   *)
(* generator of the process.  The stream is abstracted to a linear         *)
(* congruential sequence over RngMod values; gauss() keeps its spare       *)
(* deviate in gauss_next, which seed() clears.                             *)
(***************************************************************************)
\* Number of states of the abstracted stream.
RngMod == 16

\* random.seed(42)
SEED == 42


\* Python None, where a value may be absent: <<>> for None, <<v>> for v.
None == <<>>

Some(v) == <<v>>

\* random.seed(a) that leaves the stream where it was.
Reseed_skipped(stream, a) == stream

\* random.seed(a), acting on the stream in state `stream`.
Reseed(stream, a) == [x |-> a % RngMod, gauss_next |-> None]

\* One raw draw: the value drawn and the stream after it.
Draw(stream) ==
  LET x == (5 * stream.x + 3) % RngMod
  IN [value |-> x, rng |-> [stream EXCEPT !.x = x]]

\* random.random(): the fraction value/RngMod in [0, 1).
random(stream) ==
  LET d == Draw(stream) IN [value |-> <<d.value, RngMod>>, rng |-> d.rng]

\* random.randint(a, b): an integer in a..b.
randint(stream, a, b) ==
  LET d == Draw(stream) IN [value |-> a + (d.value % (b - a + 1)), rng |-> d.rng]

\* random.choice(population)
choice(stream, population) ==
  LET d == Draw(stream)
  IN [value |-> population[1 + (d.value % Len(population))], rng |-> d.rng]

RECURSIVE choices(_, _, _)
\* random.choices(population, k=k): k draws, each population[floor(random() * n)].
choices(stream, population, k) ==
  IF k <= 0 THEN [value |-> <<>>, rng |-> stream]
  ELSE LET r == random(stream)
           pick == population[1 + ((r.value[1] * Len(population)) \div r.value[2])]
           rest == choices(r.rng, population, k - 1)
       IN [value |-> <<pick>> \o rest.value, rng |-> rest.rng]

\* random.uniform(a, b): a + (b - a) * random(), as a fraction.
uniform(stream, a, b) ==
  LET r == random(stream)
  IN [value |-> <<a * r.value[2] + (b - a) * r.value[1], r.value[2]>>, rng |-> r.rng]

\* random.gauss(mu, sigma): the spare deviate if there is one, else two draws
\* giving this deviate (cos branch) and the spare one (sin branch).
gauss(stream, mu, sigma) ==
  IF stream.gauss_next # None
  THEN [value |-> [mu |-> mu, sigma |-> sigma, z |-> stream.gauss_next],
        rng |-> [stream EXCEPT !.gauss_next = None]]
  ELSE LET r1 == random(stream)
           r2 == random(r1.rng)
       IN [value |-> [mu |-> mu, sigma |-> sigma,
                      z |-> <<"cos", r1.value[1], r2.value[1]>>],
           rng |-> [r2.rng EXCEPT !.gauss_next = <<"sin", r1.value[1], r2.value[1]>>]]

ascii_lowercase ==
  <<"a", "b", "c", "d", "e", "f", "g", "h", "i", "j", "k", "l", "m",
    "n", "o", "p", "q", "r", "s", "t", "u", "v", "w", "x", "y", "z">>

ascii_uppercase ==
  <<"A", "B", "C", "D", "E", "F", "G", "H", "I", "J", "K", "L", "M",
    "N", "O", "P", "Q", "R", "S", "T", "U", "V", "W", "X", "Y", "Z">>

digits == <<"0", "1", "2", "3", "4", "5", "6", "7", "8", "9">>

\* string.ascii_letters + string.digits + ' '
letters_digits_space == ascii_lowercase \o ascii_uppercase \o digits \o <<" ">>

\* pa.table({...}): the columns in dict order, each <<name, type, values>>.
Table(columns) == [columns |-> columns]

(***************************************************************************)
(* String data: microbenchmarks.generate_test_data,                        *)
(* string_functions_benchmark.generate_string_data, strings.generate_data  *)
(* (three copies of one loop).                                             *)
(***************************************************************************)
RECURSIVE string_rows(_, _, _, _)
string_rows(i, num_rows, stream, strings) ==
  IF i >= num_rows THEN [value |-> strings, rng |-> stream]
  ELSE LET pattern_type == i % 5 IN
    IF pattern_type = 0
    THEN string_rows(i + 1, num_rows, stream,
           Append(strings, "  test_" \o ToString(i % 1000) \o "  "))
    ELSE IF pattern_type = 1
    THEN LET c == choices(stream, ascii_lowercase, 20)
         IN string_rows(i + 1, num_rows, c.rng, Append(strings, Join(c.value)))
    ELSE IF pattern_type = 2
    THEN string_rows(i + 1, num_rows, stream,
           Append(strings, "TestData_" \o ToString(i) \o "_Value"))
    ELSE IF pattern_type = 3
    THEN string_rows(i + 1, num_rows, stream,
           Append(strings, "hello world " \o ToString(i % 100) \o " data"))
    ELSE LET length == randint(stream, 5, 50)
             c == choices(length.rng, letters_digits_space, length.value)
         IN string_rows(i + 1, num_rows, c.rng, Append(strings, Join(c.value)))

generate_test_data(num_rows, use_string_view, stream) ==
  LET rows == string_rows(0, num_rows, Reseed(stream, SEED), <<>>)
      str_type == IF use_string_view THEN "string_view" ELSE "string"
  IN [value |-> Table(<< <<"str_col", str_type, rows.value>> >>), rng |-> rows.rng]

generate_string_data(num_rows, stream) ==
  LET rows == string_rows(0, num_rows, Reseed(stream, SEED), <<>>)
  IN [value |-> Table(<< <<"str_col", "string", rows.value>> >>), rng |-> rows.rng]

strings_generate_data(num_rows, use_string_view, stream) ==
  LET rows == string_rows(0, num_rows, Reseed(stream, SEED), <<>>)
      str_type == IF use_string_view THEN "string_view" ELSE "string"
  IN [value |-> Table(<< <<"str_col", str_type, rows.value>> >>), rng |-> rows.rng]

(***************************************************************************)
(* Temporal data.  A timestamp is its offset from base_date 2020-01-01,    *)
(* in seconds.                                                             *)
(***************************************************************************)
\* base_date + timedelta(days=..., hours=..., minutes=..., seconds=...)
timedelta(days, hours, minutes, seconds) ==
  days * 86400 + hours * 3600 + minutes * 60 + seconds

RECURSIVE sfb_temporal_rows_hours(_, _, _, _, _)
\* The loop with the second timestamp offset by hours instead of days.
sfb_temporal_rows_hours(i, num_rows, stream, timestamps, timestamps2) ==
  IF i >= num_rows
  THEN [value |-> <<timestamps, timestamps2>>, rng |-> stream]
  ELSE LET days_offset == randint(stream, 0, 1460)
           hours_offset == randint(days_offset.rng, 0, 23)
           minutes_offset == randint(hours_offset.rng, 0, 59)
           seconds_offset == randint(minutes_offset.rng, 0, 59)
           ts == timedelta(days_offset.value, hours_offset.value,
                           minutes_offset.value, seconds_offset.value)
           later == randint(seconds_offset.rng, 1, 30)
           ts2 == ts + timedelta(0, later.value, 0, 0)
       IN sfb_temporal_rows_hours(i + 1, num_rows, later.rng,
                                  Append(timestamps, ts), Append(timestamps2, ts2))

RECURSIVE sfb_temporal_rows(_, _, _, _, _)
sfb_temporal_rows(i, num_rows, stream, timestamps, timestamps2) ==
  IF i >= num_rows
  THEN [value |-> <<timestamps, timestamps2>>, rng |-> stream]
  ELSE LET days_offset == randint(stream, 0, 1460)
           hours_offset == randint(days_offset.rng, 0, 23)
           minutes_offset == randint(hours_offset.rng, 0, 59)
           seconds_offset == randint(minutes_offset.rng, 0, 59)
           ts == timedelta(days_offset.value, hours_offset.value,
                           minutes_offset.value, seconds_offset.value)
           later == randint(seconds_offset.rng, 1, 30)
           ts2 == ts + timedelta(later.value, 0, 0, 0)
       IN sfb_temporal_rows(i + 1, num_rows, later.rng,
                            Append(timestamps, ts), Append(timestamps2, ts2))

generate_temporal_data(num_rows, stream) ==
  LET rows == sfb_temporal_rows(0, num_rows, Reseed(stream, SEED), <<>>, <<>>)
  IN [value |-> Table(<< <<"ts_col", "timestamp[us]", rows.value[1]>>,
                         <<"ts_col2", "timestamp[us]", rows.value[2]>> >>),
      rng |-> rows.rng]

RECURSIVE temporal_rows(_, _, _, _)
temporal_rows(i, num_rows, stream, timestamps) ==
  IF i >= num_rows THEN [value |-> timestamps, rng |-> stream]
  ELSE LET pattern_type == i % 4
           max_days == 365 * 5
       IN
    IF pattern_type = 0
    THEN LET days == randint(stream, 0, max_days)
             hours == randint(days.rng, 0, 23)
             minutes == randint(hours.rng, 0, 59)
             seconds == randint(minutes.rng, 0, 59)
         IN temporal_rows(i + 1, num_rows, seconds.rng,
              Append(timestamps,
                     timedelta(days.value, hours.value, minutes.value, seconds.value)))
    ELSE IF pattern_type = 1
    THEN LET days == randint(stream, 0, max_days)
         IN temporal_rows(i + 1, num_rows, days.rng,
              Append(timestamps, timedelta(days.value, 0, 0, 0)))
    ELSE IF pattern_type = 2
    THEN LET days == randint(stream, 0, max_days)
             hours == choice(days.rng, <<9, 10, 11, 12, 13, 14, 15, 16, 17>>)
         IN temporal_rows(i + 1, num_rows, hours.rng,
              Append(timestamps, timedelta(days.value, hours.value, 0, 0)))
    ELSE temporal_rows(i + 1, num_rows, stream,
              Append(timestamps, timedelta(0, 0, 0, i)))

temporal_generate_data(num_rows, use_string_view, stream) ==
  LET rows == temporal_rows(0, num_rows, Reseed(stream, SEED), <<>>)
  IN [value |-> Table(<< <<"ts_col", "timestamp[us]", rows.value>> >>),
      rng |-> rows.rng]

(***************************************************************************)
(* Numeric data.                                                           *)
(***************************************************************************)
RECURSIVE numeric_rows(_, _, _, _)
numeric_rows(i, num_rows, stream, values) ==
  IF i >= num_rows THEN [value |-> values, rng |-> stream]
  ELSE LET pattern_type == i % 5
           v == IF pattern_type = 0 THEN randint(stream, -100, 100)
                ELSE IF pattern_type = 1 THEN randint(stream, -10000, 10000)
                ELSE IF pattern_type = 2 THEN uniform(stream, -1000, 1000)
                ELSE IF pattern_type = 3 THEN uniform(stream, -1, 1)
                ELSE gauss(stream, 0, 500)
       IN numeric_rows(i + 1, num_rows, v.rng, Append(values, v.value))

numeric_generate_data(num_rows, use_string_view, stream) ==
  LET rows == numeric_rows(0, num_rows, Reseed(stream, SEED), <<>>)
  IN [value |-> Table(<< <<"num_col", "float64", rows.value>> >>), rng |-> rows.rng]

(***************************************************************************)
(* Conditional data.                                                       *)
(***************************************************************************)
RECURSIVE conditional_rows(_, _, _, _, _)
conditional_rows(i, num_rows, stream, values, nullable_values) ==
  IF i >= num_rows
  THEN [value |-> <<values, nullable_values>>, rng |-> stream]
  ELSE LET v == randint(stream, -100, 100)
           coin == random(v.rng)
           \* random.random() < 0.3
           isnull == 10 * coin.value[1] < 3 * coin.value[2]
           drawn == randint(coin.rng, -100, 100)
           n == IF isnull THEN [value |-> None, rng |-> coin.rng]
                ELSE [value |-> Some(drawn.value), rng |-> drawn.rng]
       IN conditional_rows(i + 1, num_rows, n.rng,
                           Append(values, v.value), Append(nullable_values, n.value))

conditional_generate_data(num_rows, use_string_view, stream) ==
  LET rows == conditional_rows(0, num_rows, Reseed(stream, SEED), <<>>, <<>>)
  IN [value |-> Table(<< <<"val_col", "int64", rows.value[1]>>,
                         <<"nullable_col", "int64", rows.value[2]>> >>),
      rng |-> rows.rng]

RECURSIVE randint_list(_, _, _, _)
\* [random.randint(a, b) for _ in range(num_rows)]
randint_list(num_rows, stream, a, b) ==
  IF num_rows <= 0 THEN [value |-> <<>>, rng |-> stream]
  ELSE LET v == randint(stream, a, b)
           rest == randint_list(num_rows - 1, v.rng, a, b)
       IN [value |-> <<v.value>> \o rest.value, rng |-> rest.rng]

RECURSIVE random_list(_, _)
\* [random.random() for _ in range(num_rows)]
random_list(num_rows, stream) ==
  IF num_rows <= 0 THEN [value |-> <<>>, rng |-> stream]
  ELSE LET v == random(stream)
           rest == random_list(num_rows - 1, v.rng)
       IN [value |-> <<v.value>> \o rest.value, rng |-> rest.rng]

RECURSIVE nullable_list(_, _)
\* [random.randint(0, 100) if random.random() > 0.3 else None for _ in range(num_rows)]
nullable_list(num_rows, stream) ==
  IF num_rows <= 0 THEN [value |-> <<>>, rng |-> stream]
  ELSE LET coin == random(stream)
           drawn == randint(coin.rng, 0, 100)
           v == IF 10 * coin.value[1] > 3 * coin.value[2]
                THEN [value |-> Some(drawn.value), rng |-> drawn.rng]
                ELSE [value |-> None, rng |-> coin.rng]
           rest == nullable_list(num_rows - 1, v.rng)
       IN [value |-> <<v.value>> \o rest.value, rng |-> rest.rng]

RECURSIVE category_list(_, _)
\* [chr(ord('A') + random.randint(0, 9)) for _ in range(num_rows)]
category_list(num_rows, stream) ==
  IF num_rows <= 0 THEN [value |-> <<>>, rng |-> stream]
  ELSE LET v == randint(stream, 0, 9)
           rest == category_list(num_rows - 1, v.rng)
       IN [value |-> <<ascii_uppercase[1 + v.value]>> \o rest.value, rng |-> rest.rng]

generate_conditional_data(num_rows, stream) ==
  LET int_col == randint_list(num_rows, Reseed(stream, SEED), 0, 100)
      int_col2 == randint_list(num_rows, int_col.rng, 0, 100)
      float_col == random_list(num_rows, int_col2.rng)
      nullable_col == nullable_list(num_rows, float_col.rng)
      nullable_col2 == nullable_list(num_rows, nullable_col.rng)
      categories == category_list(num_rows, nullable_col2.rng)
      str_col == [i \in 1..num_rows |-> "item_" \o ToString((i - 1) % 1000)]
  IN [value |-> Table(<< <<"int_col", "int64", int_col.value>>,
                         <<"int_col2", "int64", int_col2.value>>,
                         <<"float_col", "float64", float_col.value>>,
                         <<"nullable_col", "int64", nullable_col.value>>,
                         <<"nullable_col2", "int64", nullable_col2.value>>,
                         <<"category", "string", categories.value>>,
                         <<"str_col", "string", str_col>> >>),
      rng |-> categories.rng]

\* The data generators of the repository, by module and name.
Generators ==
  {"microbenchmarks.generate_test_data",
   "string_functions_benchmark.generate_string_data",
   "string_functions_benchmark.generate_temporal_data",
   "string_functions_benchmark.generate_conditional_data",
   "strings.generate_data", "temporal.generate_data",
   "numeric.generate_data", "conditional.generate_data"}

\* Calling generator `g`: its table and the stream it leaves behind.
Generate(g, num_rows, use_string_view, stream) ==
  CASE g = "microbenchmarks.generate_test_data" ->
         generate_test_data(num_rows, use_string_view, stream)
    [] g = "string_functions_benchmark.generate_string_data" ->
         generate_string_data(num_rows, stream)
    [] g = "string_functions_benchmark.generate_temporal_data" ->
         generate_temporal_data(num_rows, stream)
    [] g = "string_functions_benchmark.generate_conditional_data" ->
         generate_conditional_data(num_rows, stream)
    [] g = "strings.generate_data" ->
         strings_generate_data(num_rows, use_string_view, stream)
    [] g = "temporal.generate_data" ->
         temporal_generate_data(num_rows, use_string_view, stream)
    [] g = "numeric.generate_data" ->
         numeric_generate_data(num_rows, use_string_view, stream)
    [] g = "conditional.generate_data" ->
         conditional_generate_data(num_rows, use_string_view, stream)

(***************************************************************************)
(* Python floats, as far as the harness uses them: a finite non-negative   *)
(* value is the exact fraction <<numerator, denominator>>, float('inf') is *)
(* Inf and float('nan') is NaN.                                            *)
(***************************************************************************)
NaN == <<0, 0>>

Inf == <<1, 0>>

\* An integer as a float.
Float(n) == <<n, 1>>

RECURSIVE GCD(_, _)
GCD(a, b) == IF b = 0 THEN a ELSE GCD(b, a % b)

\* The fraction n/d (n >= 0, d > 0) in lowest terms: one value, one float.
Fraction(n, d) == LET g == GCD(n, d) IN <<n \div g, d \div g>>

IsNaN(a) == a = NaN

IsFinite(a) == a[2] # 0

\* a == b: false as soon as one side is NaN.
FloatEq(a, b) ==
  /\ ~IsNaN(a) /\ ~IsNaN(b)
  /\ IF IsFinite(a) /\ IsFinite(b) THEN a[1] * b[2] = b[1] * a[2] ELSE a = b

\* a < b: false as soon as one side is NaN.
FloatLt(a, b) ==
  /\ ~IsNaN(a) /\ ~IsNaN(b)
  /\ IF IsFinite(a) /\ IsFinite(b) THEN a[1] * b[2] < b[1] * a[2]
     ELSE IsFinite(a) /\ ~IsFinite(b)

\* a > b
FloatGt(a, b) == FloatLt(b, a)

\* a + b
FloatAdd(a, b) ==
  IF IsNaN(a) \/ IsNaN(b) THEN NaN
  ELSE IF ~IsFinite(a) \/ ~IsFinite(b) THEN Inf
  ELSE Fraction(a[1] * b[2] + b[1] * a[2], a[2] * b[2])

\* a / b: ZeroDivisionError when b is zero.
FloatDiv(a, b) ==
  IF IsFinite(b) /\ b[1] = 0 THEN Raised("ZeroDivisionError", <<>>)
  ELSE IF IsNaN(a) \/ IsNaN(b) THEN Returned(NaN)
  ELSE IF ~IsFinite(a) THEN Returned(IF IsFinite(b) THEN Inf ELSE NaN)
  ELSE IF ~IsFinite(b) THEN Returned(Float(0))
  ELSE Returned(Fraction(a[1] * b[2], a[2] * b[1]))

\* max(a, b): a unless b > a.
max(a, b) == IF FloatGt(b, a) THEN b ELSE a

\* min(a, b): a unless b < a.
min(a, b) == IF FloatLt(b, a) THEN b ELSE a

RECURSIVE sum(_)
\* sum(values) of a list of floats, from 0.
sum(values) ==
  IF Len(values) = 0 THEN Float(0)
  ELSE FloatAdd(sum(SubSeq(values, 1, Len(values) - 1)), values[Len(values)])

\* A cell of the report: fixed text, or a number printed with two decimals
\* (kept as its count of hundredths) followed by a suffix.
TextCell(text) == [text |-> text, hundredths |-> -1]

NumCell(hundredths, suffix) == [text |-> suffix, hundredths |-> hundredths]

\* f"{value:.2f}" followed by `suffix`: the nearest hundredth, ties to even.
Fmt2(value, suffix) ==
  IF IsNaN(value) THEN TextCell("nan" \o suffix)
  ELSE IF ~IsFinite(value) THEN TextCell("inf" \o suffix)
  ELSE LET q == (100 * value[1]) \div value[2]
           r == (100 * value[1]) % value[2]
       IN NumCell(IF 2 * r > value[2] THEN q + 1
                  ELSE IF 2 * r = value[2] THEN q + (q % 2)
                  ELSE q, suffix)

(***************************************************************************)
(* BenchmarkResult and the report.                                         *)
(***************************************************************************)
BenchmarkResult(function_name, datafusion_time_ms, duckdb_time_ms, rows) ==
  [function_name |-> function_name, datafusion_time_ms |-> datafusion_time_ms,
   duckdb_time_ms |-> duckdb_time_ms, rows |-> rows]

\* BenchmarkResult.speedup: DuckDB time / DataFusion time.
speedup(r) ==
  IF FloatEq(r.datafusion_time_ms, Float(0)) THEN Inf
  ELSE FloatDiv(r.duckdb_time_ms, r.datafusion_time_ms).value

\* The NaN test of the row loop without its DuckDB half.
IsFailed_df_only(r) ==
  ~FloatEq(r.datafusion_time_ms, r.datafusion_time_ms)

\* r.datafusion_time_ms != r.datafusion_time_ms or r.duckdb_time_ms != r.duckdb_time_ms
IsFailed(r) ==
  \/ ~FloatEq(r.datafusion_time_ms, r.datafusion_time_ms)
  \/ ~FloatEq(r.duckdb_time_ms, r.duckdb_time_ms)

\* One table row: <<function, DataFusion ms, DuckDB ms, speedup, faster>>.
ReportRow(r) ==
  IF IsFailed(r)
  THEN Returned(<<TextCell(r.function_name), TextCell("ERROR"), TextCell("ERROR"),
                  TextCell("N/A"), TextCell("N/A")>>)
  ELSE LET s == speedup(r) IN
    IF FloatGt(s, Float(1))
    THEN Returned(<<TextCell(r.function_name), Fmt2(r.datafusion_time_ms, ""),
                    Fmt2(r.duckdb_time_ms, ""), Fmt2(s, "x"),
                    TextCell("DataFusion")>>)
    ELSE LET inverse == FloatDiv(Float(1), s) IN
      IF inverse.raised # "none" THEN inverse
      ELSE Returned(<<TextCell(r.function_name), Fmt2(r.datafusion_time_ms, ""),
                      Fmt2(r.duckdb_time_ms, ""), Fmt2(inverse.value, "x"),
                      TextCell("DuckDB")>>)

\* The summary filter that keeps every result, failed or not.
valid_results_unfiltered(results) == results

\* valid_results: the results whose two latencies both equal themselves.
valid_results(results) ==
  SelectSeq(results, LAMBDA r :
    FloatEq(r.datafusion_time_ms, r.datafusion_time_ms)
    /\ FloatEq(r.duckdb_time_ms, r.duckdb_time_ms))

\* A summary that counts a tie as a DataFusion win (`>=` for `>`).
Summary_tie_to_datafusion(results) ==
  LET valid == valid_results(results)
  IN IF Len(valid) = 0 THEN Returned(None)
     ELSE LET df_wins == Cardinality({i \in 1..Len(valid) :
                            ~FloatLt(speedup(valid[i]), Float(1))})
              duck_wins == Len(valid) - df_wins
              df_total == sum([i \in 1..Len(valid) |-> valid[i].datafusion_time_ms])
              duck_total == sum([i \in 1..Len(valid) |-> valid[i].duckdb_time_ms])
          IN Returned(Some([tested |-> Len(valid), df_wins |-> df_wins,
                            duck_wins |-> duck_wins,
                            df_total |-> Fmt2(df_total, " ms"),
                            duck_total |-> Fmt2(duck_total, " ms")]))

\* The summary block of the report, None when no result is valid.
Summary(results) ==
  LET valid == valid_results(results)
  IN IF Len(valid) = 0 THEN Returned(None)
     ELSE LET df_wins == Cardinality({i \in 1..Len(valid) :
                            FloatGt(speedup(valid[i]), Float(1))})
              duck_wins == Len(valid) - df_wins
              df_total == sum([i \in 1..Len(valid) |-> valid[i].datafusion_time_ms])
              duck_total == sum([i \in 1..Len(valid) |-> valid[i].duckdb_time_ms])
          IN Returned(Some([tested |-> Len(valid), df_wins |-> df_wins,
                            duck_wins |-> duck_wins,
                            df_total |-> Fmt2(df_total, " ms"),
                            duck_total |-> Fmt2(duck_total, " ms")]))

\* format_results_markdown: the header's row count, one row per result and
\* the summary; the first exception raised on the way leaves the function.
format_results_markdown(results) ==
  IF Len(results) = 0 THEN Raised("IndexError", <<>>)
  ELSE LET rows == [i \in 1..Len(results) |-> ReportRow(results[i])]
           raising == {i \in 1..Len(results) : rows[i].raised # "none"}
           summary == Summary(results)
       IN IF raising # {}
          THEN rows[CHOOSE i \in raising : \A j \in raising : i <= j]
          ELSE IF summary.raised # "none" THEN summary
          ELSE Returned([rows_header |-> results[1].rows,
                         rows |-> [i \in 1..Len(results) |-> rows[i].value],
                         summary |-> summary.value])

(***************************************************************************)
(* benchmark_datafusion / benchmark_duckdb: warmup runs, then timed runs,  *)
(* then the mean of the timed samples.                                     *)
(***************************************************************************)
\* len(range(n)): the number of passes of `for _ in range(n)`.
RangeLen(n) == IF n > 0 THEN n ELSE 0

\* The loop the call is in after `done` query executions.
BenchPhase(done, warmup, iterations) ==
  IF done < RangeLen(warmup) THEN "warmup"
  ELSE IF done < RangeLen(warmup) + RangeLen(iterations) THEN "timed"
  ELSE "return"

\* A loop body that appends the elapsed time in the warmup loop as well.
RecordSample_every_run(times, phase, elapsed) == Append(times, Float(elapsed))

\* times.append((end - start) * 1000), in the timed loop only.
RecordSample(times, phase, elapsed) ==
  IF phase = "timed" THEN Append(times, Float(elapsed)) ELSE times

\* A mean that is 0 for an empty list of samples.
Mean_of_nothing_is_zero(times) ==
  IF times = <<>> THEN Returned(Float(0)) ELSE FloatDiv(sum(times), Float(Len(times)))

\* sum(times) / len(times)
Mean(times) == FloatDiv(sum(times), Float(Len(times)))

(***************************************************************************)
(* run_benchmarks.                                                         *)
(***************************************************************************)
\* An `except Exception` clause that lets engine errors through.
ExceptCatches_arithmetic_only(type) == type = "ZeroDivisionError"

\* An except clause naming the engines' own error type instead of Exception.
ExceptCatches_query_only(type) == type = "QueryError"

\* `except Exception`: every exception type of the model is a subclass of
\* Exception.
ExceptCatches(type) ==
  type \in {"QueryError", "OpenError", "ZeroDivisionError", "KeyError", "IndexError",
            "ValueError", "OSError", "MemoryError"}

\* results.append(result) skipped for a case with a failed engine.
AppendResult_skip_failed(results, result) ==
  IF IsFailed(result) THEN results ELSE Append(results, result)

\* results.append(result)
AppendResult(results, result) == Append(results, result)

\* A progress line that gives a tie to DataFusion (`<=` for `<`).
ProgressLine_tie_to_datafusion(df_time, duck_time) ==
  IF FloatEq(df_time, df_time) /\ FloatEq(duck_time, duck_time)
  THEN LET faster == IF ~FloatGt(df_time, duck_time) THEN "DataFusion" ELSE "DuckDB"
           ratio == FloatDiv(max(df_time, duck_time), min(df_time, duck_time))
       IN IF ratio.raised # "none" THEN ratio
          ELSE Returned(<<TextCell("done"), TextCell(faster), Fmt2(ratio.value, "x")>>)
  ELSE Returned(<<TextCell("done (with errors)")>>)

\* The progress line of a case: `done (<faster> <ratio>x faster)` or
\* `done (with errors)`.
ProgressLine(df_time, duck_time) ==
  IF FloatEq(df_time, df_time) /\ FloatEq(duck_time, duck_time)
  THEN LET faster == IF FloatLt(df_time, duck_time) THEN "DataFusion" ELSE "DuckDB"
           ratio == FloatDiv(max(df_time, duck_time), min(df_time, duck_time))
       IN IF ratio.raised # "none" THEN ratio
          ELSE Returned(<<TextCell("done"), TextCell(faster), Fmt2(ratio.value, "x")>>)
  ELSE Returned(<<TextCell("done (with errors)")>>)

(***************************************************************************)
(* Bounds of the model.                                                    *)
(***************************************************************************)
\* Largest row count handed to a generator.
MaxRows == 5

\* Cases of a suite that a modelled run goes through (a prefix of the suite).
MaxCases == 2

\* Largest --warmup and --iterations.
MaxWarmup == 1

MaxIter == 1

\* Largest number of generator calls in one modelled process.
MaxCalls == 2

\* Elapsed wall time of one query execution, in milliseconds.
Samples == {3, 4}

\* Row counts of a modelled run.
RunRows == {1}

\* Longest result list handed to format_results_markdown on its own.
MaxResults == 2

VARIABLES
  call,       \* catalog: the last catalog operation and its outcome
  rng,        \* the process-wide random stream
  table,      \* the table the last generator call returned
  genCall,    \* generators: arguments of the last call
  refCall,    \* generators: arguments of the first call
  refTable,   \* generators: table of the first call
  genCount,   \* generators: number of calls made
  streamBefore, \* generators: the stream as the last call found it
  args,       \* run: the arguments of run_benchmarks
  pc,         \* run: position in main / run_benchmarks
  exc,        \* run: type of the exception that left run_benchmarks
  tmpdir,     \* run: "none", "exists" or "deleted"
  parquet,    \* run: contents of test_data.parquet, None while there is no file
  df_ctx,     \* run: "none", "open" or "released"
  duck_conn,  \* run: "none", "open" or "closed"
  cases,      \* run: the cases the loop goes through
  columns,    \* run: the column bindings of the suite
  idx,        \* run: index of the current case
  exprs,      \* run: df_expr and duck_expr of the current case
  done,       \* run: query executions made by the current benchmark call
  times,      \* run: the list `times` of the current benchmark call
  df_time,    \* run: df_time of the current case
  duck_time,  \* run: duck_time of the current case
  results,    \* run: the list `results`
  progress,   \* run: the last progress line printed
  report,     \* main: what format_results_markdown returned
  attempted,  \* history: the <<case index, engine>> of every benchmark call begun
  log,        \* history: the executions of the benchmark call begun last
  partitions, \* tpchgen: the argument `partitions` of generate_tpch
  max_workers, \* tpchgen: os.cpu_count(), the size of the thread pool
  futures,    \* tpchgen: the state of the future submitted for each partition
  handled,    \* tpchgen: the futures as_completed has handed to the loop, in order
  reported,   \* tpchgen: the partitions "Command failed with exception" was printed for
  tbl_files,  \* tpchgen: the .tbl files in data/, as <<table, part>> (part 0: no suffix)
  converted,  \* tpchgen: the calls of convert_tbl_to_parquet that returned, in order
  tpch_pc,    \* tpchgen: position in generate_tpch
  baseline,   \* comparison: the JSON object of filename1, as its set of keys
  comparison, \* comparison: the JSON object of filename2, as its set of keys
  keys_read,  \* comparison: the <<chart, log, key>> lookups made, in order
  images,     \* comparison: the image files written, in order
  cmp_pc,     \* comparison: position in main
  suites,     \* registries: the SUITES dicts of the process, as they are now
  names,      \* registries: the list list_suites returned, as its caller holds it now
  tpcds_partitions, \* tpcdsgen: the argument `partitions` of convert_tpcds
  tpcds_schemas,    \* tpcdsgen: the global all_schemas as it is now
  tpcds_next,       \* tpcdsgen: the number of passes of the conversion loops made
  tpcds_last,       \* tpcdsgen: the last call of convert_dat_to_parquet, None if skipped
  tpcds_pc,         \* tpcdsgen: position in convert_tpcds
  bench,            \* tpcbench.py: the state of one runner's main
  speedup_chart             \* speedup chart: the two logs and the bars drawn

catalogVars == <<call>>

genVars == <<rng, table, genCall, refCall, refTable, genCount, streamBefore>>

runVars ==
  <<args, pc, exc, tmpdir, parquet, df_ctx, duck_conn, cases, columns, idx, exprs,
    done, times, df_time, duck_time, results, progress, report, attempted, log>>

tpchVars ==
  <<partitions, max_workers, futures, handled, reported, tbl_files, converted, tpch_pc>>

cmpVars == <<baseline, comparison, keys_read, images, cmp_pc>>

tpcdsVars == <<tpcds_partitions, tpcds_schemas, tpcds_next, tpcds_last, tpcds_pc>>

\* tpcdsgen.py, the tpcbench.py runners and the speedup chart
scriptVars == <<tpcdsVars, bench, speedup_chart>>

toolVars == <<tpchVars, cmpVars, suites, names, scriptVars>>

vars == <<call, rng, table, genCall, refCall, refTable, genCount, streamBefore,
          args, pc, exc, tmpdir,
          parquet, df_ctx, duck_conn, cases, columns, idx, exprs, done, times,
          df_time, duck_time, results, progress, report, attempted, log,
          partitions, max_workers, futures, handled, reported, tbl_files, converted,
          tpch_pc, baseline, comparison, keys_read, images, cmp_pc, suites, names,
          tpcds_partitions, tpcds_schemas, tpcds_next, tpcds_last, tpcds_pc,
          bench, speedup_chart>>

CatalogIdle == call = [op |-> "none", arg |-> <<>>, out |-> Returned(<<>>)]

GenIdle ==
  /\ table = None
  /\ genCall = None
  /\ refCall = None
  /\ refTable = None
  /\ genCount = 0
  /\ streamBefore = None

NoLog == [engine |-> "none", idx |-> 0, runs |-> <<>>, finished |-> FALSE,
          raised |-> "none", latency |-> NaN]

RunIdle(position) ==
  /\ pc = position
  /\ exc = "none"
  /\ tmpdir = "none"
  /\ parquet = None
  /\ df_ctx = "none"
  /\ duck_conn = "none"
  /\ cases = <<>>
  /\ columns = None
  /\ idx = 0
  /\ exprs = None
  /\ done = 0
  /\ times = <<>>
  /\ df_time = NaN
  /\ duck_time = NaN
  /\ results = <<>>
  /\ progress = None
  /\ report = None
  /\ attempted = <<>>
  /\ log = NoLog

TpchIdle ==
  /\ partitions = 0
  /\ max_workers = 0
  /\ futures = <<>>
  /\ handled = <<>>
  /\ reported = {}
  /\ tbl_files = {}
  /\ converted = <<>>
  /\ tpch_pc = "idle"

\* A process that has not imported tpcdsgen.
TpcdsIdle ==
  /\ tpcds_partitions = 0
  /\ tpcds_schemas = <<>>
  /\ tpcds_next = 0
  /\ tpcds_last = None
  /\ tpcds_pc = "idle"

\* No tpcbench.py runner has been started.
BenchIdle == bench = [pc |-> "idle"]

\* generate_query_speedup_chart has not been called with timings.
ChartIdle == speedup_chart = [pc |-> "idle"]

ScriptsIdle == TpcdsIdle /\ BenchIdle /\ ChartIdle

CmpIdle ==
  /\ baseline = None
  /\ comparison = None
  /\ keys_read = <<>>
  /\ images = <<>>
  /\ cmp_pc = "idle"

NoArgs == [runner |-> "none", registry |-> "shipped", suite_name |-> "",
           use_string_view |-> FALSE, num_rows |-> 0, warmup |-> 0, iterations |-> 0]

\* A suite entry whose second case names a column the suite does not bind.
MalformedSuite ==
  [name |-> "Broken Functions",
   functions |-> <<Sfb_STRING_FUNCTIONS[1],
                   BenchmarkFunction("unbound",
                     <<Lit("upper("), Field("missing_col"), Lit(")")>>,
                     <<Lit("upper("), Field("missing_col"), Lit(")")>>)>>,
   data_generator |-> "string_functions_benchmark.generate_string_data",
   columns |-> [str_col |-> "str_col"]]

\* The SUITES dict the module holds when run_benchmarks is called: as shipped,
\* or with the malformed entry added under 'broken'.
RegisteredSuites(registry) ==
  IF registry = "shipped" THEN Sfb_SUITES
  ELSE Append(Sfb_SUITES, <<"broken", MalformedSuite>>)

\* The registries as the imports leave them at process start: SUITES of the
\* suites package and SUITES of string_functions_benchmark.
Registries(registry) ==
  [package |-> SUITES, runner |-> RegisteredSuites(registry)]

\* The stream of a fresh process: seeded from the operating system, so any state.
FreshStreams == [x : 0..(RngMod - 1), gauss_next : {None}]

(***************************************************************************)
(* Specification of the catalogs: get_suite, list_suites and the template  *)
(* expansion of every case of every registered suite.                      *)
(***************************************************************************)
CatalogInit ==
  /\ CatalogIdle
  /\ GenIdle
  /\ TpchIdle
  /\ CmpIdle
  /\ rng = [x |-> 0, gauss_next |-> None]
  /\ args = NoArgs
  /\ suites = Registries(args.registry)
  /\ names = None
  /\ ScriptsIdle
  /\ RunIdle("idle")

CallGetSuite ==
  /\ \E name \in SuiteNames :
       call' = [op |-> "get_suite", arg |-> <<name>>, out |-> get_suite(name)]
  /\ UNCHANGED <<genVars, runVars, toolVars>>

CallListSuites ==
  /\ call' = [op |-> "list_suites", arg |-> <<>>, out |-> list_suites]
  /\ names' = Some(list_suites.value)
  /\ UNCHANGED <<genVars, runVars, tpchVars, cmpVars, scriptVars, suites>>

ExpandCase ==
  /\ \E c \in Catalogs : \E i \in 1..Len(c.functions) :
       call' = [op |-> "expand", arg |-> <<c.registry, c.key, i>>,
                out |-> ExpandTemplates(c.functions[i], c.columns)]
  /\ UNCHANGED <<genVars, runVars, toolVars>>

\* Whether the object a catalog function returns is one the registry holds:
\* get_suite returns the registered Suite itself, list_suites a list newly
\* built by list().
SharedWithRegistry_keys_too(op) == op \in {"get_suite", "list_suites"}

SharedWithRegistry(op) == op = "get_suite"

\* `del dict[key]`
Without(dict, key) == SelectSeq(dict, LAMBDA item : item[1] # key)

\* The caller of list_suites removes the last name from the list it was given
\* (names.pop()); what shares state with the list changes with it.
CallerEditsList ==
  /\ names # None
  /\ names[1] # <<>>
  /\ LET last == names[1][Len(names[1])]
     IN  /\ names' = Some(SubSeq(names[1], 1, Len(names[1]) - 1))
         /\ suites' = IF SharedWithRegistry("list_suites")
                       THEN [suites EXCEPT !.package = Without(@, last)]
                       ELSE suites
  /\ UNCHANGED <<call, genVars, runVars, tpchVars, cmpVars, scriptVars>>

CatalogNext == CallGetSuite \/ CallListSuites \/ ExpandCase \/ CallerEditsList

SpecCatalog == CatalogInit /\ [][CatalogNext]_vars

(***************************************************************************)
(* Specification of the generators: any sequence of generator calls in one *)
(* process.                                                                *)
(***************************************************************************)
\* The calls a generator accepts; only the package generators and
\* generate_test_data take the use_string_view flag.
GenCalls ==
  {c \in [g : Generators, num_rows : 0..MaxRows, use_string_view : BOOLEAN] :
     c.use_string_view =>
       c.g \notin {"string_functions_benchmark.generate_string_data",
                   "string_functions_benchmark.generate_temporal_data",
                   "string_functions_benchmark.generate_conditional_data"}}

GenInit ==
  /\ CatalogIdle
  /\ GenIdle
  /\ TpchIdle
  /\ CmpIdle
  /\ rng \in FreshStreams
  /\ args = NoArgs
  /\ suites = Registries(args.registry)
  /\ names = None
  /\ ScriptsIdle
  /\ RunIdle("idle")

\* One invocation of a generator on the process-wide stream.  refCall and
\* refTable keep the arguments and the table of the first invocation.
CallGenerator ==
  /\ genCount < MaxCalls
  /\ genCount' = genCount + 1
  /\ streamBefore' = Some(rng)
  /\ \E c \in GenCalls :
       LET out == Generate(c.g, c.num_rows, c.use_string_view, rng)
       IN /\ rng' = out.rng
          /\ table' = Some(out.value)
          /\ genCall' = Some(c)
          /\ refCall' = IF refCall = None THEN Some(c) ELSE refCall
          /\ refTable' = IF refCall = None THEN Some(out.value) ELSE refTable
  /\ UNCHANGED <<call, toolVars, runVars>>

GenNext == CallGenerator

SpecGen == GenInit /\ [][GenNext]_vars

(***************************************************************************)
(* Specification of a benchmark run: main calling run_benchmarks and then  *)
(* format_results_markdown.                                                *)
(***************************************************************************)
\* The argument lists of run_benchmarks.  microbenchmarks.py has one suite;
\* string_functions_benchmark.py takes a suite name, registered or not.
RunArgs ==
  {a \in [runner : {"microbenchmarks", "string_functions_benchmark"},
          registry : {"shipped", "malformed"},
          suite_name : {"string", "temporal", "conditional", "numeric", "broken"},
          use_string_view : BOOLEAN, num_rows : RunRows,
          warmup : 0..MaxWarmup, iterations : -1..MaxIter] :
     /\ a.runner = "microbenchmarks" => (a.suite_name = "string" /\ a.registry = "shipped")
     /\ a.registry = "malformed" => a.suite_name = "broken"
     /\ a.runner = "string_functions_benchmark" => ~a.use_string_view}

Init ==
  /\ CatalogIdle
  /\ GenIdle
  /\ TpchIdle
  /\ CmpIdle
  /\ rng \in FreshStreams
  /\ args \in RunArgs
  /\ suites = Registries(args.registry)
  /\ names = None
  /\ ScriptsIdle
  /\ RunIdle("start")

\* An exception leaves the `with tempfile.TemporaryDirectory()` block: the
\* directory and the file in it are removed, nothing else is released.
Propagate(type) ==
  /\ pc' = "raised"
  /\ exc' = type
  /\ tmpdir' = IF tmpdir = "exists" THEN "deleted" ELSE tmpdir
  /\ parquet' = None

\* The first `MaxCases` cases of a suite.
Prefix(functions) ==
  SubSeq(functions, 1, IF Len(functions) < MaxCases THEN Len(functions) ELSE MaxCases)

\* suite = SUITES[suite_name]; results = []
LookupSuite ==
  /\ pc = "start"
  /\ IF args.runner = "microbenchmarks"
     THEN /\ cases' = Prefix(Micro_STRING_FUNCTIONS)
          /\ columns' = Some(Micro_columns)
          /\ pc' = "tmpdir"
          /\ UNCHANGED exc
     ELSE IF HasKey(RegisteredSuites(args.registry), args.suite_name)
     THEN /\ cases' =
               Prefix(Lookup(RegisteredSuites(args.registry), args.suite_name).functions)
          /\ columns' =
               Some(Lookup(RegisteredSuites(args.registry), args.suite_name).columns)
          /\ pc' = "tmpdir"
          /\ UNCHANGED exc
     ELSE /\ pc' = "raised"
          /\ exc' = "KeyError"
          /\ UNCHANGED <<cases, columns>>
  /\ results' = <<>>
  /\ UNCHANGED <<call, toolVars, genVars, args, tmpdir, parquet, df_ctx, duck_conn, idx, exprs,
                 done, times, df_time, duck_time, progress, report, attempted, log>>

\* with tempfile.TemporaryDirectory() as tmpdir
EnterTmpdir ==
  /\ pc = "tmpdir"
  /\ \/ /\ tmpdir' = "exists"
        /\ pc' = "generate"
        /\ UNCHANGED exc
     \/ /\ pc' = "raised"
        /\ exc' = "OSError"
        /\ UNCHANGED tmpdir
  /\ UNCHANGED <<call, toolVars, genVars, args, parquet, df_ctx, duck_conn, cases, columns, idx,
                 exprs, done, times, df_time, duck_time, results, progress, report,
                 attempted, log>>

\* The generator run_benchmarks calls.
RunGenerator ==
  IF args.runner = "microbenchmarks" THEN "microbenchmarks.generate_test_data"
  ELSE Lookup(RegisteredSuites(args.registry), args.suite_name).data_generator

\* table = generate_test_data(num_rows, use_string_view)
GenerateData ==
  /\ pc = "generate"
  /\ \/ LET out == Generate(RunGenerator, args.num_rows, args.use_string_view, rng)
        IN /\ rng' = out.rng
           /\ table' = Some(out.value)
           /\ pc' = "write"
           /\ UNCHANGED <<exc, tmpdir, parquet>>
     \/ /\ Propagate("MemoryError")
        /\ UNCHANGED <<rng, table>>
  /\ UNCHANGED <<call, toolVars, genCall, refCall, refTable, genCount, streamBefore, args,
                 df_ctx, duck_conn, cases, columns, idx, exprs, done, times, df_time, duck_time, results,
                 progress, report, attempted, log>>

\* pq.write_table(table, parquet_path)
WriteTable ==
  /\ pc = "write"
  /\ \/ /\ parquet' = table
        /\ pc' = "setup_datafusion"
        /\ UNCHANGED <<exc, tmpdir>>
     \/ Propagate("OSError")
  /\ UNCHANGED <<call, toolVars, genVars, args, df_ctx, duck_conn, cases, columns, idx, exprs,
                 done, times, df_time, duck_time, results, progress, report,
                 attempted, log>>

\* df_ctx = setup_datafusion(parquet_path)
SetupDatafusion ==
  /\ pc = "setup_datafusion"
  /\ \/ /\ df_ctx' = "open"
        /\ pc' = "setup_duckdb"
        /\ UNCHANGED <<exc, tmpdir, parquet>>
     \/ /\ Propagate("OpenError")
        /\ UNCHANGED df_ctx
  /\ UNCHANGED <<call, toolVars, genVars, args, duck_conn, cases, columns, idx, exprs, done,
                 times, df_time, duck_time, results, progress, report, attempted, log>>

\* duck_conn = setup_duckdb(parquet_path)
SetupDuckdb ==
  /\ pc = "setup_duckdb"
  /\ \/ /\ duck_conn' = "open"
        /\ pc' = "loop"
        /\ UNCHANGED <<exc, tmpdir, parquet>>
     \/ /\ Propagate("OpenError")
        /\ UNCHANGED duck_conn
  /\ UNCHANGED <<call, toolVars, genVars, args, df_ctx, cases, columns, idx, exprs, done, times,
                 df_time, duck_time, results, progress, report, attempted, log>>

\* for func in functions: the two templates of the next case are expanded;
\* after the last case the loop is left.
NextCase ==
  /\ pc = "loop"
  /\ IF idx < Len(cases)
     THEN LET e == ExpandTemplates(cases[idx + 1], columns[1])
          IN IF e.df.raised # "none" \/ e.duck.raised # "none"
             THEN /\ Propagate("KeyError")
                  /\ UNCHANGED <<idx, exprs>>
             ELSE /\ idx' = idx + 1
                  /\ exprs' = Some([df_expr |-> e.df.value, duck_expr |-> e.duck.value])
                  /\ pc' = "datafusion"
                  /\ UNCHANGED <<exc, tmpdir, parquet>>
     ELSE /\ pc' = "close"
          /\ UNCHANGED <<idx, exprs, exc, tmpdir, parquet>>
  /\ done' = 0
  /\ times' = <<>>
  /\ UNCHANGED <<call, toolVars, genVars, args, df_ctx, duck_conn, cases, columns, df_time,
                 duck_time, results, progress, report, attempted, log>>

\* The history of the benchmark call in progress, a new one when the call begins.
LogOf(engine) ==
  IF log.engine = engine /\ log.idx = idx /\ ~log.finished THEN log
  ELSE [engine |-> engine, idx |-> idx, runs |-> <<>>, finished |-> FALSE,
        raised |-> "none", latency |-> NaN]

\* The calls begun, with the call of `engine` on the current case among them.
AttemptedWith(engine) ==
  IF done = 0 /\ ~(log.engine = engine /\ log.idx = idx /\ ~log.finished)
  THEN Append(attempted, <<idx, engine>>) ELSE attempted

\* A loop body that calls the same engine again.
After_retry(engine) == engine

\* A loop body that goes back to DataFusion after the DuckDB call.
After_back_to_datafusion(engine) == IF engine = "datafusion" THEN "duckdb" ELSE "datafusion"

\* The position after the benchmark call of `engine` is over.
After(engine) == IF engine = "datafusion" THEN "duckdb" ELSE "append"

\* One query execution of the benchmark call of `engine`, in its warmup or
\* timed loop: it returns after `elapsed` ms or raises.  An exception leaves
\* the call; the `except Exception` of run_benchmarks turns it into NaN.
EngineRun(engine) ==
  /\ pc = engine
  /\ LET phase == BenchPhase(done, args.warmup, args.iterations)
         l == LogOf(engine)
     IN /\ phase # "return"
        /\ attempted' = AttemptedWith(engine)
        /\ \/ \E elapsed \in Samples :
                /\ times' = RecordSample(times, phase, elapsed)
                /\ done' = done + 1
                /\ log' = [l EXCEPT !.runs = Append(@, [phase |-> phase, raised |-> FALSE,
                                                         elapsed |-> elapsed])]
                /\ UNCHANGED <<pc, exc, tmpdir, parquet, df_time, duck_time>>
           \/ /\ log' = [l EXCEPT !.runs = Append(@, [phase |-> phase, raised |-> TRUE,
                                                       elapsed |-> 0]),
                                  !.finished = TRUE, !.raised = "QueryError"]
              /\ done' = 0
              /\ times' = <<>>
              /\ IF ExceptCatches("QueryError")
                 THEN /\ pc' = After(engine)
                      /\ df_time' = IF engine = "datafusion" THEN NaN ELSE df_time
                      /\ duck_time' = IF engine = "duckdb" THEN NaN ELSE duck_time
                      /\ UNCHANGED <<exc, tmpdir, parquet>>
                 ELSE /\ Propagate("QueryError")
                      /\ UNCHANGED <<df_time, duck_time>>
  /\ UNCHANGED <<call, toolVars, genVars, args, df_ctx, duck_conn, cases, columns, idx, exprs,
                 results, progress, report>>

\* return sum(times) / len(times), and the try/except around the call.
EngineReturn(engine) ==
  /\ pc = engine
  /\ BenchPhase(done, args.warmup, args.iterations) = "return"
  /\ attempted' = AttemptedWith(engine)
  /\ LET out == Mean(times)
         time == IF out.raised = "none" THEN out.value ELSE NaN
     IN /\ log' = [LogOf(engine) EXCEPT !.finished = TRUE, !.raised = out.raised,
                                        !.latency = time]
        /\ IF out.raised = "none" \/ ExceptCatches(out.raised)
           THEN /\ pc' = After(engine)
                /\ df_time' = IF engine = "datafusion" THEN time ELSE df_time
                /\ duck_time' = IF engine = "duckdb" THEN time ELSE duck_time
                /\ UNCHANGED <<exc, tmpdir, parquet>>
           ELSE /\ Propagate(out.raised)
                /\ UNCHANGED <<df_time, duck_time>>
  /\ done' = 0
  /\ times' = <<>>
  /\ UNCHANGED <<call, toolVars, genVars, args, df_ctx, duck_conn, cases, columns, idx, exprs,
                 results, progress, report>>

DatafusionRun == EngineRun("datafusion")

DatafusionReturn == EngineReturn("datafusion")

DuckdbRun == EngineRun("duckdb")

DuckdbReturn == EngineReturn("duckdb")

\* results.append(BenchmarkResult(...)) and the progress line.  The history of
\* the case's last benchmark call ends here.
RecordResult ==
  /\ pc = "append"
  /\ results' = AppendResult(results,
       BenchmarkResult(cases[idx].name, df_time, duck_time, args.num_rows))
  /\ LET line == ProgressLine(df_time, duck_time)
     IN IF line.raised # "none"
        THEN /\ Propagate(line.raised)
             /\ UNCHANGED progress
        ELSE /\ progress' = Some(line.value)
             /\ pc' = "loop"
             /\ UNCHANGED <<exc, tmpdir, parquet>>
  /\ log' = NoLog
  /\ UNCHANGED <<call, toolVars, genVars, args, df_ctx, duck_conn, cases, columns, idx, exprs,
                 done, times, df_time, duck_time, report, attempted>>

\* duck_conn.close()
CloseDuckdb ==
  /\ pc = "close"
  /\ duck_conn' = "closed"
  /\ pc' = "exit_with"
  /\ UNCHANGED <<call, toolVars, genVars, args, exc, tmpdir, parquet, df_ctx, cases, columns, idx,
                 exprs, done, times, df_time, duck_time, results, progress, report,
                 attempted, log>>

\* The end of the `with` block: the temporary directory is removed.
ExitWith ==
  /\ pc = "exit_with"
  /\ tmpdir' = "deleted"
  /\ parquet' = None
  /\ pc' = "return"
  /\ UNCHANGED <<call, toolVars, genVars, args, exc, df_ctx, duck_conn, cases, columns, idx,
                 exprs, done, times, df_time, duck_time, results, progress, report,
                 attempted, log>>

\* return results: the frame is left and with it the last reference to
\* df_ctx, which releases the DataFusion session.
ReturnResults ==
  /\ pc = "return"
  /\ df_ctx' = "released"
  /\ pc' = "returned"
  /\ UNCHANGED <<call, toolVars, genVars, args, exc, tmpdir, parquet, duck_conn, cases, columns,
                 idx, exprs, done, times, df_time, duck_time, results, progress, report,
                 attempted, log>>

\* main: markdown = format_results_markdown(results, ...)
FormatReport ==
  /\ pc = "returned"
  /\ report' = Some(format_results_markdown(results))
  /\ pc' = "reported"
  /\ UNCHANGED <<call, toolVars, genVars, args, exc, tmpdir, parquet, df_ctx, duck_conn, cases,
                 columns, idx, exprs, done, times, df_time, duck_time, results,
                 progress, attempted, log>>

Next ==
  \/ LookupSuite
  \/ EnterTmpdir
  \/ GenerateData
  \/ WriteTable
  \/ SetupDatafusion
  \/ SetupDuckdb
  \/ NextCase
  \/ DatafusionRun
  \/ DatafusionReturn
  \/ DuckdbRun
  \/ DuckdbReturn
  \/ RecordResult
  \/ CloseDuckdb
  \/ ExitWith
  \/ ReturnResults
  \/ FormatReport

Spec == Init /\ [][Next]_vars

(***************************************************************************)
(* Specification of the reporter: format_results_markdown applied to any   *)
(* list of results, whether a run can produce it or not.                   *)
(***************************************************************************)
\* Latencies of a result: the failure sentinel, zero and some positive means.
Latencies == {NaN, Float(0), Float(3), Float(4), Fraction(7, 2)}

\* The result lists of up to MaxResults cases, named after the first cases
\* of microbenchmarks.py.
ReportInputs ==
  {[i \in 1..Len(f) |->
      BenchmarkResult(Micro_STRING_FUNCTIONS[i].name, f[i][1], f[i][2], 1)] :
   f \in UNION {[1..n -> Latencies \X Latencies] : n \in 0..MaxResults}}

ReportInit ==
  /\ CatalogIdle
  /\ GenIdle
  /\ TpchIdle
  /\ CmpIdle
  /\ rng = [x |-> 0, gauss_next |-> None]
  /\ args = NoArgs
  /\ suites = Registries(args.registry)
  /\ names = None
  /\ ScriptsIdle
  /\ pc = "returned"
  /\ results \in ReportInputs
  /\ exc = "none" /\ tmpdir = "none" /\ parquet = None
  /\ df_ctx = "none" /\ duck_conn = "none"
  /\ cases = <<>> /\ columns = None /\ idx = 0 /\ exprs = None
  /\ done = 0 /\ times = <<>> /\ df_time = NaN /\ duck_time = NaN
  /\ progress = None /\ report = None /\ attempted = <<>> /\ log = NoLog

ReportNext == FormatReport

SpecReport == ReportInit /\ [][ReportNext]_vars

(***************************************************************************)
(* Properties of a benchmark run.                                          *)
(***************************************************************************)
\* The elements of a sequence.
Range(seq) == {seq[i] : i \in 1..Len(seq)}

\* The cases a run of `args` goes through, read from the catalogs.
SuiteCases ==
  Prefix(IF args.runner = "microbenchmarks" THEN Micro_STRING_FUNCTIONS
         ELSE Lookup(RegisteredSuites(args.registry), args.suite_name).functions)

RECURSIVE TotalElapsed(_)
\* Sum of the elapsed times of a sequence of logged executions, in ms.
TotalElapsed(runs) ==
  IF Len(runs) = 0 THEN 0 ELSE Head(runs).elapsed + TotalElapsed(Tail(runs))

\* The timed executions of a logged benchmark call, in order.
TimedRuns(l) == SelectSeq(l.runs, LAMBDA r : r.phase = "timed")

\* What a logged benchmark call owes its caller: the sentinel once an
\* execution raised or when there is no timed sample, else the mean of the
\* timed samples.
LatencyOwed(l) ==
  IF (\E i \in 1..Len(l.runs) : l.runs[i].raised) \/ Len(TimedRuns(l)) = 0 THEN NaN
  ELSE Fraction(TotalElapsed(TimedRuns(l)), Len(TimedRuns(l)))

\* C1: failure isolation.  An engine's failed benchmark call never ends the
\* run: control passes to the other engine or to the append; when a case is
\* appended both engines have been called on it and DuckDB's latency is what
\* its own executions give; DataFusion's latency is what its own executions
\* give and stays so during DuckDB's call; and a run that returned has called
\* both engines on every case of the suite.
C1_FailureIsolation ==
  /\ []((log.finished /\ log.raised # "none") =>
          pc = (IF log.engine = "datafusion" THEN "duckdb" ELSE "append"))
  /\ [](pc = "append" =>
          /\ <<idx, "datafusion">> \in Range(attempted)
          /\ <<idx, "duckdb">> \in Range(attempted)
          /\ log.engine = "duckdb" /\ log.idx = idx /\ log.finished
          /\ duck_time = LatencyOwed(log))
  /\ []((pc = "duckdb" /\ log.engine = "datafusion" /\ log.finished) =>
          (log.idx = idx /\ df_time = LatencyOwed(log)))
  /\ [][pc = "duckdb" => df_time' = df_time]_vars
  /\ [](pc = "returned" =>
          \A k \in 1..Len(SuiteCases) : \A e \in {"datafusion", "duckdb"} :
            <<k, e>> \in Range(attempted))

\* C1 witness: a returned run whose first case failed on DataFusion alone and
\* whose second case was measured on both engines.
C1_Witness ==
  /\ pc = "returned"
  /\ Len(results) = 2
  /\ IsNaN(results[1].datafusion_time_ms)
  /\ ~IsNaN(results[1].duckdb_time_ms)
  /\ ~IsNaN(results[2].datafusion_time_ms)
  /\ ~IsNaN(results[2].duckdb_time_ms)

\* C2: resource cleanup.  Whenever run_benchmarks has ended, by return or by
\* an exception, the Parquet file is gone and neither the DataFusion session
\* nor the DuckDB connection is open.
C2_ResourceCleanup ==
  pc \in {"returned", "raised"} =>
    /\ parquet = None
    /\ tmpdir # "exists"
    /\ df_ctx # "open"
    /\ duck_conn # "open"

\* C6: a returned run holds one result per case of the suite, in the suite's
\* order, each with a mean of samples or the sentinel for each engine.
C6_OneResultPerCase ==
  pc = "returned" =>
    /\ Len(results) = Len(SuiteCases)
    /\ \A k \in 1..Len(results) :
         /\ results[k].function_name = SuiteCases[k].name
         /\ results[k].rows = args.num_rows
         /\ \A t \in {results[k].datafusion_time_ms, results[k].duckdb_time_ms} :
              \/ IsNaN(t)
              \/ /\ IsFinite(t)
                 /\ \E lo \in Samples : ~FloatLt(t, Float(lo))
                 /\ \E hi \in Samples : ~FloatLt(Float(hi), t)

\* C6 witness: a returned run of two cases, the first failed on DuckDB alone,
\* the second failed on both engines.
C6_Witness ==
  /\ pc = "returned"
  /\ Len(results) = 2
  /\ ~IsNaN(results[1].datafusion_time_ms)
  /\ IsNaN(results[1].duckdb_time_ms)
  /\ IsNaN(results[2].datafusion_time_ms)
  /\ IsNaN(results[2].duckdb_time_ms)
  /\ args.iterations > 0

Reported == pc = "reported" /\ report # None /\ report[1].raised = "none"

\* The rows of the report that was produced.
Rows == report[1].value.rows

\* Both latencies of a result are numbers.
BothValid(r) == ~IsNaN(r.datafusion_time_ms) /\ ~IsNaN(r.duckdb_time_ms)

\* A printed ratio that is at least 1.00.
AtLeastOne(cell) == cell.hundredths >= 100 \/ cell.text = "infx"

\* C3: speedup invariant.  Every result with two valid latencies has a row;
\* its ratio is at least 1.00, the larger latency over the smaller; the engine
\* with the strictly smaller latency is named faster; and all rows with equal
\* latencies name the same engine.
C3_SpeedupInvariant ==
  (pc = "reported" /\ \E i \in 1..Len(results) : BothValid(results[i])) =>
    /\ report[1].raised = "none"
    /\ \A i \in 1..Len(results) :
         LET a == results[i].datafusion_time_ms
             b == results[i].duckdb_time_ms
             small == IF FloatLt(b, a) THEN b ELSE a
             large == IF FloatLt(b, a) THEN a ELSE b
         IN BothValid(results[i]) =>
              /\ AtLeastOne(Rows[i][4])
              /\ small[1] > 0 =>
                   Rows[i][4] = Fmt2(Fraction(large[1] * small[2],
                                              large[2] * small[1]), "x")
              /\ FloatLt(a, b) => Rows[i][5] = TextCell("DataFusion")
              /\ FloatLt(b, a) => Rows[i][5] = TextCell("DuckDB")
    /\ \A i, j \in 1..Len(results) :
         (/\ BothValid(results[i]) /\ BothValid(results[j])
          /\ results[i].datafusion_time_ms = results[i].duckdb_time_ms
          /\ results[j].datafusion_time_ms = results[j].duckdb_time_ms) =>
           Rows[i][5] = Rows[j][5]

\* C4: in a report, every result with a sentinel latency has its own row, and
\* the row reads ERROR, ERROR, N/A, N/A after the function name.
C4_ErrorRows ==
  Reported =>
    /\ Len(Rows) = Len(results)
    /\ \A i \in 1..Len(results) :
         ~BothValid(results[i]) =>
           Rows[i] = <<TextCell(results[i].function_name), TextCell("ERROR"),
                       TextCell("ERROR"), TextCell("N/A"), TextCell("N/A")>>

\* C4 witness: a report of two results, the first failed on DuckDB alone, the
\* second measured on both engines.
C4_Witness ==
  /\ Reported
  /\ Len(results) = 2
  /\ ~IsNaN(results[1].datafusion_time_ms)
  /\ IsNaN(results[1].duckdb_time_ms)
  /\ BothValid(results[2])
  /\ Rows[1][2] = TextCell("ERROR")
  /\ Rows[2][2] # TextCell("ERROR")

RECURSIVE TotalOver(_, _)
\* Sum of the latencies `of[i]` over the indices i of a set.
TotalOver(set, of) ==
  IF set = {} THEN Float(0)
  ELSE LET i == CHOOSE k \in set : \A j \in set : j <= k
       IN FloatAdd(TotalOver(set \ {i}, of), of[i])

\* C5: the summary of a report counts and sums exactly the results with two
\* valid latencies: the functions tested are all of them, every one is a win
\* of one engine, an engine's wins include the cases it was strictly faster
\* in, the totals are the sums of their latencies; without such a result the
\* report has no summary.
C5_SummaryOverValid ==
  Reported =>
    LET valid == {i \in 1..Len(results) : BothValid(results[i])}
        summary == report[1].value.summary
    IN IF valid = {} THEN summary = None
       ELSE /\ summary # None
            /\ summary[1].tested = Cardinality(valid)
            /\ summary[1].df_wins + summary[1].duck_wins = Cardinality(valid)
            /\ summary[1].df_wins >= Cardinality({i \in valid :
                 FloatLt(results[i].datafusion_time_ms, results[i].duckdb_time_ms)})
            /\ summary[1].duck_wins >= Cardinality({i \in valid :
                 FloatLt(results[i].duckdb_time_ms, results[i].datafusion_time_ms)})
            /\ summary[1].df_total = Fmt2(TotalOver(valid,
                 [i \in 1..Len(results) |-> results[i].datafusion_time_ms]), " ms")
            /\ summary[1].duck_total = Fmt2(TotalOver(valid,
                 [i \in 1..Len(results) |-> results[i].duckdb_time_ms]), " ms")

\* C5 witness: a report with a summary over one valid result, next to a
\* result failed on DataFusion.
C5_Witness ==
  /\ Reported
  /\ Len(results) = 2
  /\ IsNaN(results[1].datafusion_time_ms)
  /\ BothValid(results[2])
  /\ report[1].value.summary # None
  /\ report[1].value.summary[1].tested = 1

(***************************************************************************)
(* Properties of the generators.                                           *)
(***************************************************************************)
\* C8: generator determinism.  A generator called again with the arguments of
\* the first call returns the table of the first call, whatever state the
\* random stream was in before either call.
C8_GeneratorDeterminism ==
  (genCall = refCall /\ refTable # None) => table = refTable

\* C8 witness: a second call with the arguments of the first, for MaxRows
\* rows, that found the stream away from its seeded state.
C8_Witness ==
  /\ genCount = 2
  /\ genCall = refCall
  /\ genCall[1].num_rows = MaxRows
  /\ streamBefore # Some(Reseed(streamBefore[1], SEED))
  /\ table = refTable

(***************************************************************************)
(* Properties of the catalogs.                                             *)
(***************************************************************************)
\* get_suite and list_suites, with `error` the exception of an unknown name.
SuiteLookup(error) ==
  /\ call.op = "get_suite" =>
       IF call.arg[1] \in {"strings", "temporal", "numeric"}
       THEN /\ call.out.raised = "none"
            /\ call.out.value = Lookup(SUITES, call.arg[1])
            /\ call.out.value.name = call.arg[1]
       ELSE call.out.raised = error
  /\ call.op = "list_suites" =>
       call.out = Returned(<<"strings", "temporal", "numeric">>)

\* C9 as stated: get_suite returns the suite registered under a name and fails
\* with UnknownSuiteError for any other name; list_suites returns the
\* registered names in registration order.
C9_UnknownSuiteError == SuiteLookup("UnknownSuiteError")

\* C9 as amended: get_suite returns the suite registered under a name and
\* fails with ValueError for any other name; list_suites returns the
\* registered names in registration order.
C9_ValueError == SuiteLookup("ValueError")

\* C9 witness: get_suite asked for a name that is not registered.
C9_Witness ==
  /\ call.op = "get_suite"
  /\ call.arg[1] = "conditional"
  /\ call.out.raised = "ValueError"
  /\ call.out.value.available = <<"strings", "temporal", "numeric">>

\* C10: template completeness.  Both templates of every case of every
\* registered suite expand under the suite's column bindings: no placeholder
\* is without a binding.
C10_TemplateCompleteness ==
  call.op = "expand" =>
    /\ call.out.df.raised = "none"
    /\ call.out.duck.raised = "none"

\* C10 witness: an expanded case of the conditional suite of
\* string_functions_benchmark.py whose DataFusion template names two columns.
C10_Witness ==
  /\ call.op = "expand"
  /\ call.arg[1] = "string_functions_benchmark"
  /\ call.arg[2] = "conditional"
  /\ call.out.df.raised = "none"
  /\ LET template == Lookup(Sfb_SUITES, "conditional").functions[call.arg[3]].datafusion_expr
     IN Cardinality({template[i].text : i \in {k \in 1..Len(template) :
                                               template[k].kind = "field"}}) >= 2

(***************************************************************************)
(* Properties of configuration and setup failures.                         *)
(***************************************************************************)
\* C11: a configuration error is fatal before any engine work.  A run that
\* ended by the KeyError of an unknown suite name or of a placeholder without
\* a binding has opened no engine session and begun no benchmark call.
C11_ConfigErrorBeforeEngineWork ==
  (pc = "raised" /\ exc = "KeyError") =>
    /\ df_ctx = "none"
    /\ duck_conn = "none"
    /\ attempted = <<>>

\* C12: a failure to open one engine's session does not abort the run.
\* run_benchmarks never ends by the exception of setup_datafusion or
\* setup_duckdb, and a run that returned has called the engines on every
\* case of the suite.
C12_OpenFailureNotFatal ==
  /\ ~(pc = "raised" /\ exc = "OpenError")
  /\ pc = "returned" =>
       \A k \in 1..Len(SuiteCases) : \A e \in {"datafusion", "duckdb"} :
         <<k, e>> \in Range(attempted)

\* The exit status of the process once main is over: 0 when main returned,
\* 1 when an exception left main; "running" before that.
ExitStatus ==
  IF pc = "raised" THEN Some(1)
  ELSE IF pc = "reported" THEN (IF report[1].raised = "none" THEN Some(0) ELSE Some(1))
  ELSE None

\* A step of main.  The data generator and the reporter are always ready at
\* their positions, so their steps are told by the position they leave.
Progress ==
  \/ LookupSuite \/ EnterTmpdir
  \/ (pc = "generate" /\ pc' \in {"write", "raised"})
  \/ WriteTable \/ SetupDatafusion \/ SetupDuckdb \/ NextCase
  \/ DatafusionRun \/ DatafusionReturn \/ DuckdbRun \/ DuckdbReturn
  \/ RecordResult \/ CloseDuckdb \/ ExitWith \/ ReturnResults
  \/ (pc = "returned" /\ pc' = "reported")

\* A process that leaves its position whenever it can: a single thread
\* of control that nothing suspends.
SpecLive == Init /\ [][Next]_vars /\ WF_pc(Progress)

MaxPartitions == 3

\* Largest os.cpu_count().
MaxWorkers == 2

table_names ==
  <<"customer", "lineitem", "nation", "orders", "part", "partsupp", "region", "supplier">>

\* The unpartitioned tables: "nation and region are special cases and do not
\* generate multiple files".
Unpartitioned == {"nation", "region"}

\* The .tbl files a generation command that exits with status 0 leaves in data/:
\* without -C/-S every table unsuffixed, with -S part the suffixed chunk of each
\* partitioned table and the whole of nation and region.
Generated(n, part) ==
  {<<table_names[i], IF n = 1 \/ table_names[i] \in Unpartitioned THEN 0 ELSE part>> :
     i \in 1..Len(table_names)}

\* The calls of convert_tbl_to_parquet for one table, as the files they read.
TableFiles(tbl, n) ==
  IF n = 1 \/ tbl \in Unpartitioned THEN << <<tbl, 0>> >>
  ELSE [part \in 1..n |-> <<tbl, part>>]

RECURSIVE ConvertFrom(_, _)
ConvertFrom(i, n) ==
  IF i > Len(table_names) THEN <<>>
  ELSE TableFiles(table_names[i], n) \o ConvertFrom(i + 1, n)

\* The conversion loop of generate_tpch: the files read, in order.
ConvertPlan(n) == ConvertFrom(1, n)

\* One log file for every command, the name of the single-partition branch.
LogFile_shared(part) == <<"/tmp/tpchgen", ".log">>

\* f"/tmp/tpchgen-part{part}.log"
LogFile(part) == <<"/tmp/tpchgen-part", part, ".log">>

\* The list `commands`: for part in range(1, partitions + 1) the docker
\* command with -C partitions -S part, and its log file.  The future at
\* index i of `futures` is the one submitted for commands[i].
Commands(n) == [part \in 1..n |-> [C |-> n, S |-> part, log_file |-> LogFile(part)]]

\* run_and_log_output: open(log_file, "w") can raise; subprocess.run is called
\* without check=True, so it returns whatever the command's exit status is.
CommandOutcomes == {"ok", "exit_nonzero", "raised"}

Finished(state) == state \in CommandOutcomes

Running == {p \in 1..Len(futures) : futures[p] = "running"}

TpchInit ==
  /\ CatalogIdle
  /\ GenIdle
  /\ CmpIdle
  /\ rng = [x |-> 0, gauss_next |-> None]
  /\ args = NoArgs
  /\ suites = Registries(args.registry)
  /\ names = None
  /\ ScriptsIdle
  /\ RunIdle("idle")
  /\ partitions \in 1..MaxPartitions
  /\ max_workers \in 1..MaxWorkers
  /\ futures = <<>>
  /\ handled = <<>>
  /\ reported = {}
  /\ tbl_files = {}
  /\ converted = <<>>
  /\ tpch_pc = "start"

\* partitions == 1: one command, run by the calling thread outside any try.
RunSingle ==
  /\ tpch_pc = "start"
  /\ partitions = 1
  /\ \E outcome \in CommandOutcomes :
       /\ tbl_files' = IF outcome = "ok" THEN Generated(1, 1) ELSE tbl_files
       /\ tpch_pc' = IF outcome = "raised" THEN "raised" ELSE "convert"
  /\ UNCHANGED <<call, suites, names, scriptVars, genVars, runVars, cmpVars, partitions, max_workers, futures,
                 handled, reported, converted>>

\* One executor.submit of the list comprehension, for part = Len(futures) + 1.
Submit ==
  /\ tpch_pc \in {"start", "submit"}
  /\ partitions # 1
  /\ Len(futures) < partitions
  /\ futures' = Append(futures, "pending")
  /\ tpch_pc' = IF Len(futures') = partitions THEN "wait" ELSE "submit"
  /\ UNCHANGED <<call, suites, names, scriptVars, genVars, runVars, cmpVars, partitions, max_workers, handled,
                 reported, tbl_files, converted>>

\* A free worker thread takes the oldest queued work item.
StartTask ==
  /\ Cardinality(Running) < max_workers
  /\ \E p \in 1..Len(futures) :
       /\ futures[p] = "pending"
       /\ \A q \in 1..(p - 1) : futures[q] # "pending"
       /\ futures' = [futures EXCEPT ![p] = "running"]
  /\ UNCHANGED <<call, suites, names, scriptVars, genVars, runVars, cmpVars, partitions, max_workers, handled,
                 reported, tbl_files, converted, tpch_pc>>

\* run_and_log_output ends in a worker thread; what it raised is kept in the future.
EndTask ==
  /\ \E p \in Running : \E outcome \in CommandOutcomes :
       /\ futures' = [futures EXCEPT ![p] = outcome]
       /\ tbl_files' =
            IF outcome = "ok" THEN tbl_files \cup Generated(partitions, p) ELSE tbl_files
  /\ UNCHANGED <<call, suites, names, scriptVars, genVars, runVars, cmpVars, partitions, max_workers, handled,
                 reported, converted, tpch_pc>>

\* One pass of `for future in as_completed(futures)`: future.result() inside
\* try / except Exception / print.
HandleFuture ==
  /\ tpch_pc = "wait"
  /\ \E p \in 1..Len(futures) :
       /\ Finished(futures[p])
       /\ p \notin Range(handled)
       /\ handled' = Append(handled, p)
       /\ reported' = IF futures[p] = "raised" THEN reported \cup {p} ELSE reported
  /\ UNCHANGED <<call, suites, names, scriptVars, genVars, runVars, cmpVars, partitions, max_workers, futures,
                 tbl_files, converted, tpch_pc>>

\* as_completed is exhausted and the `with` block of the executor is left.
ExitExecutor ==
  /\ tpch_pc = "wait"
  /\ Len(handled) = Len(futures)
  /\ tpch_pc' = "convert"
  /\ UNCHANGED <<call, suites, names, scriptVars, genVars, runVars, cmpVars, partitions, max_workers, futures,
                 handled, reported, tbl_files, converted>>

\* The next convert_tbl_to_parquet of the loop: ctx.read_csv raises when the
\* file is not there, and nothing around the loop catches it.
Convert ==
  /\ tpch_pc = "convert"
  /\ LET plan == ConvertPlan(partitions)
         file == plan[Len(converted) + 1]
     IN  IF file \in tbl_files
         THEN /\ converted' = Append(converted, file)
              /\ tpch_pc' = IF Len(converted') = Len(plan) THEN "done" ELSE "convert"
         ELSE /\ tpch_pc' = "raised"
              /\ UNCHANGED converted
  /\ UNCHANGED <<call, suites, names, scriptVars, genVars, runVars, cmpVars, partitions, max_workers, futures,
                 handled, reported, tbl_files>>

TpchNext ==
  \/ RunSingle
  \/ Submit
  \/ StartTask
  \/ EndTask
  \/ HandleFuture
  \/ ExitExecutor
  \/ Convert

SpecTpch == TpchInit /\ [][TpchNext]_vars

(***************************************************************************)
(* scripts/generate-comparison.py: main and the three chart functions.     *)
(* A timing log is modelled by the set of its keys: the charts' numbers    *)
(* are not part of this model.                                             *)
(***************************************************************************)

\* str(query) for query in range(1, 23), in loop order.
QueryKeys_short ==
  <<"1", "2", "3", "4", "5", "6", "7", "8", "9", "10", "11",
    "12", "13", "14", "15", "16", "17", "18", "19", "20", "21">>

QueryKeys ==
  <<"1", "2", "3", "4", "5", "6", "7", "8", "9", "10", "11",
    "12", "13", "14", "15", "16", "17", "18", "19", "20", "21", "22">>

\* Keys a log may lack, and keys it may hold besides the 22.
MayLack == {"1", "11", "22"}

ExtraKeys == {"0", "23", "01"}

Logs ==
  {(Range(QueryKeys) \ lacking) \cup extra :
     lacking \in SUBSET MayLack, extra \in SUBSET ExtraKeys}

\* The subscriptions baseline[str(query)], comparison[str(query)] of one
\* chart function, in the order the loop makes them.
RECURSIVE LookupsFrom(_)
LookupsFrom(query) ==
  IF query > Len(QueryKeys) THEN <<>>
  ELSE << <<"baseline", QueryKeys[query]>>, <<"comparison", QueryKeys[query]>> >>
         \o LookupsFrom(query + 1)

Lookups == LookupsFrom(1)

LogNamed(name) == IF name = "baseline" THEN baseline ELSE comparison

\* The number of subscriptions that return before the first KeyError.
RECURSIVE Found(_)
Found(k) ==
  IF k > Len(Lookups) THEN Len(Lookups)
  ELSE IF Lookups[k][2] \in LogNamed(Lookups[k][1]) THEN Found(k + 1)
  ELSE k - 1

CmpInit ==
  /\ CatalogIdle
  /\ GenIdle
  /\ TpchIdle
  /\ rng = [x |-> 0, gauss_next |-> None]
  /\ args = NoArgs
  /\ suites = Registries(args.registry)
  /\ names = None
  /\ ScriptsIdle
  /\ RunIdle("idle")
  /\ baseline \in Logs
  /\ comparison \in Logs
  /\ keys_read = <<>>
  /\ images = <<>>
  /\ cmp_pc = "generate_summary"

\* One chart function: every subscription comes before plt.savefig, and a
\* KeyError leaves the function and main.
Chart(name, image, next) ==
  /\ cmp_pc = name
  /\ LET found == Found(1)
     IN  /\ keys_read' =
              keys_read \o [k \in 1..found |-> <<name, Lookups[k][1], Lookups[k][2]>>]
         /\ IF found = Len(Lookups)
            THEN images' = Append(images, image) /\ cmp_pc' = next
            ELSE images' = images /\ cmp_pc' = "raised"
  /\ UNCHANGED <<call, suites, names, scriptVars, genVars, runVars, tpchVars, baseline, comparison>>

generate_summary ==
  Chart("generate_summary", "tpch_allqueries.png", "generate_query_comparison_chart")

generate_query_comparison_chart ==
  Chart("generate_query_comparison_chart", "tpch_queries_compare.png",
        "generate_query_speedup_chart")

generate_query_speedup_chart ==
  Chart("generate_query_speedup_chart", "tpch_queries_speedup.png", "done")

CmpNext ==
  \/ generate_summary
  \/ generate_query_comparison_chart
  \/ generate_query_speedup_chart

SpecCmp == CmpInit /\ [][CmpNext]_vars

(***************************************************************************)
(* tpcds/tpcdsgen.py: table_names, all_schemas, convert_dat_to_parquet and *)
(* convert_tpcds.                                                          *)
(***************************************************************************)
\* pyarrow.field(name, type)
pyarrow_field(name, type) == [name |-> name, type |-> type]

Tpcds_table_names ==
  <<"call_center", "catalog_page", "catalog_sales", "catalog_returns", "customer",
    "customer_address", "customer_demographics", "date_dim", "income_band",
    "household_demographics", "inventory", "store", "ship_mode", "reason",
    "promotion", "item", "store_sales", "store_returns", "web_page", "warehouse",
    "time_dim", "web_site", "web_sales", "web_returns">>

\* all_schemas, a dict kept as its insertion-ordered sequence of <<table, fields>>.
all_schemas ==
  <<<<"customer_address",
      <<
        pyarrow_field("ca_address_sk", "int32"),
        pyarrow_field("ca_address_id", "string"),
        pyarrow_field("ca_street_number", "string"),
        pyarrow_field("ca_street_name", "string"),
        pyarrow_field("ca_street_type", "string"),
        pyarrow_field("ca_suite_number", "string"),
        pyarrow_field("ca_city", "string"),
        pyarrow_field("ca_county", "string"),
        pyarrow_field("ca_state", "string"),
        pyarrow_field("ca_zip", "string"),
        pyarrow_field("ca_country", "string"),
        pyarrow_field("ca_gmt_offset", "decimal128(5, 2)"),
        pyarrow_field("ca_location_type", "string")
      >> >>,
    <<"customer_demographics",
      <<
        pyarrow_field("cd_demo_sk", "int32"),
        pyarrow_field("cd_gender", "string"),
        pyarrow_field("cd_marital_status", "string"),
        pyarrow_field("cd_education_status", "string"),
        pyarrow_field("cd_purchase_estimate", "int32"),
        pyarrow_field("cd_credit_rating", "string"),
        pyarrow_field("cd_dep_count", "int32"),
        pyarrow_field("cd_dep_employed_count", "int32"),
        pyarrow_field("cd_dep_college_count", "int32")
      >> >>,
    <<"date_dim",
      <<
        pyarrow_field("d_date_sk", "int32"),
        pyarrow_field("d_date_id", "string"),
        pyarrow_field("d_date", "date32"),
        pyarrow_field("d_month_seq", "int32"),
        pyarrow_field("d_week_seq", "int32"),
        pyarrow_field("d_quarter_seq", "int32"),
        pyarrow_field("d_year", "int32"),
        pyarrow_field("d_dow", "int32"),
        pyarrow_field("d_moy", "int32"),
        pyarrow_field("d_dom", "int32"),
        pyarrow_field("d_qoy", "int32"),
        pyarrow_field("d_fy_year", "int32"),
        pyarrow_field("d_fy_quarter_seq", "int32"),
        pyarrow_field("d_fy_week_seq", "int32"),
        pyarrow_field("d_day_name", "string"),
        pyarrow_field("d_quarter_name", "string"),
        pyarrow_field("d_holiday", "string"),
        pyarrow_field("d_weekend", "string"),
        pyarrow_field("d_following_holiday", "string"),
        pyarrow_field("d_first_dom", "int32"),
        pyarrow_field("d_last_dom", "int32"),
        pyarrow_field("d_same_day_ly", "int32"),
        pyarrow_field("d_same_day_lq", "int32"),
        pyarrow_field("d_current_day", "string"),
        pyarrow_field("d_current_week", "string"),
        pyarrow_field("d_current_month", "string"),
        pyarrow_field("d_current_quarter", "string"),
        pyarrow_field("d_current_year", "string")
      >> >>,
    <<"warehouse",
      <<
        pyarrow_field("w_warehouse_sk", "int32"),
        pyarrow_field("w_warehouse_id", "string"),
        pyarrow_field("w_warehouse_name", "string"),
        pyarrow_field("w_warehouse_sq_ft", "int32"),
        pyarrow_field("w_street_number", "string"),
        pyarrow_field("w_street_name", "string"),
        pyarrow_field("w_street_type", "string"),
        pyarrow_field("w_suite_number", "string"),
        pyarrow_field("w_city", "string"),
        pyarrow_field("w_county", "string"),
        pyarrow_field("w_state", "string"),
        pyarrow_field("w_zip", "string"),
        pyarrow_field("w_country", "string"),
        pyarrow_field("w_gmt_offset", "decimal128(5, 2)")
      >> >>,
    <<"ship_mode",
      <<
        pyarrow_field("sm_ship_mode_sk", "int32"),
        pyarrow_field("sm_ship_mode_id", "string"),
        pyarrow_field("sm_type", "string"),
        pyarrow_field("sm_code", "string"),
        pyarrow_field("sm_carrier", "string"),
        pyarrow_field("sm_contract", "string")
      >> >>,
    <<"time_dim",
      <<
        pyarrow_field("t_time_sk", "int32"),
        pyarrow_field("t_time_id", "string"),
        pyarrow_field("t_time", "int32"),
        pyarrow_field("t_hour", "int32"),
        pyarrow_field("t_minute", "int32"),
        pyarrow_field("t_second", "int32"),
        pyarrow_field("t_am_pm", "string"),
        pyarrow_field("t_shift", "string"),
        pyarrow_field("t_sub_shift", "string"),
        pyarrow_field("t_meal_time", "string")
      >> >>,
    <<"reason",
      <<
        pyarrow_field("r_reason_sk", "int32"),
        pyarrow_field("r_reason_id", "string"),
        pyarrow_field("r_reason_desc", "string")
      >> >>,
    <<"income_band",
      <<
        pyarrow_field("ib_income_band_sk", "int32"),
        pyarrow_field("ib_lower_bound", "int32"),
        pyarrow_field("ib_upper_bound", "int32")
      >> >>,
    <<"item",
      <<
        pyarrow_field("i_item_sk", "int32"),
        pyarrow_field("i_item_id", "string"),
        pyarrow_field("i_rec_start_date", "date32"),
        pyarrow_field("i_rec_end_date", "date32"),
        pyarrow_field("i_item_desc", "string"),
        pyarrow_field("i_current_price", "decimal128(7, 2)"),
        pyarrow_field("i_wholesale_cost", "decimal128(7, 2)"),
        pyarrow_field("i_brand_id", "int32"),
        pyarrow_field("i_brand", "string"),
        pyarrow_field("i_class_id", "int32"),
        pyarrow_field("i_class", "string"),
        pyarrow_field("i_category_id", "int32"),
        pyarrow_field("i_category", "string"),
        pyarrow_field("i_manufact_id", "int32"),
        pyarrow_field("i_manufact", "string"),
        pyarrow_field("i_size", "string"),
        pyarrow_field("i_formulation", "string"),
        pyarrow_field("i_color", "string"),
        pyarrow_field("i_units", "string"),
        pyarrow_field("i_container", "string"),
        pyarrow_field("i_manager_id", "int32"),
        pyarrow_field("i_product_name", "string")
      >> >>,
    <<"store",
      <<
        pyarrow_field("s_store_sk", "int32"),
        pyarrow_field("s_store_id", "string"),
        pyarrow_field("s_rec_start_date", "date32"),
        pyarrow_field("s_rec_end_date", "date32"),
        pyarrow_field("s_closed_date_sk", "int32"),
        pyarrow_field("s_store_name", "string"),
        pyarrow_field("s_number_employees", "int32"),
        pyarrow_field("s_floor_space", "int32"),
        pyarrow_field("s_hours", "string"),
        pyarrow_field("s_manager", "string"),
        pyarrow_field("s_market_id", "int32"),
        pyarrow_field("s_geography_class", "string"),
        pyarrow_field("s_market_desc", "string"),
        pyarrow_field("s_market_manager", "string"),
        pyarrow_field("s_division_id", "int32"),
        pyarrow_field("s_division_name", "string"),
        pyarrow_field("s_company_id", "int32"),
        pyarrow_field("s_company_name", "string"),
        pyarrow_field("s_street_number", "string"),
        pyarrow_field("s_street_name", "string"),
        pyarrow_field("s_street_type", "string"),
        pyarrow_field("s_suite_number", "string"),
        pyarrow_field("s_city", "string"),
        pyarrow_field("s_county", "string"),
        pyarrow_field("s_state", "string"),
        pyarrow_field("s_zip", "string"),
        pyarrow_field("s_country", "string"),
        pyarrow_field("s_gmt_offset", "decimal128(5, 2)"),
        pyarrow_field("s_tax_precentage", "decimal128(5, 2)")
      >> >>,
    <<"call_center",
      <<
        pyarrow_field("cc_call_center_sk", "int32"),
        pyarrow_field("cc_call_center_id", "string"),
        pyarrow_field("cc_rec_start_date", "date32"),
        pyarrow_field("cc_rec_end_date", "date32"),
        pyarrow_field("cc_closed_date_sk", "int32"),
        pyarrow_field("cc_open_date_sk", "int32"),
        pyarrow_field("cc_name", "string"),
        pyarrow_field("cc_class", "string"),
        pyarrow_field("cc_employees", "int32"),
        pyarrow_field("cc_sq_ft", "int32"),
        pyarrow_field("cc_hours", "string"),
        pyarrow_field("cc_manager", "string"),
        pyarrow_field("cc_mkt_id", "int32"),
        pyarrow_field("cc_mkt_class", "string"),
        pyarrow_field("cc_mkt_desc", "string"),
        pyarrow_field("cc_market_manager", "string"),
        pyarrow_field("cc_division", "int32"),
        pyarrow_field("cc_division_name", "string"),
        pyarrow_field("cc_company", "int32"),
        pyarrow_field("cc_company_name", "string"),
        pyarrow_field("cc_street_number", "string"),
        pyarrow_field("cc_street_name", "string"),
        pyarrow_field("cc_street_type", "string"),
        pyarrow_field("cc_suite_number", "string"),
        pyarrow_field("cc_city", "string"),
        pyarrow_field("cc_county", "string"),
        pyarrow_field("cc_state", "string"),
        pyarrow_field("cc_zip", "string"),
        pyarrow_field("cc_country", "string"),
        pyarrow_field("cc_gmt_offset", "decimal128(5, 2)"),
        pyarrow_field("cc_tax_percentage", "decimal128(5, 2)")
      >> >>,
    <<"customer",
      <<
        pyarrow_field("c_customer_sk", "int32"),
        pyarrow_field("c_customer_id", "string"),
        pyarrow_field("c_current_cdemo_sk", "int32"),
        pyarrow_field("c_current_hdemo_sk", "int32"),
        pyarrow_field("c_current_addr_sk", "int32"),
        pyarrow_field("c_first_shipto_date_sk", "int32"),
        pyarrow_field("c_first_sales_date_sk", "int32"),
        pyarrow_field("c_salutation", "string"),
        pyarrow_field("c_first_name", "string"),
        pyarrow_field("c_last_name", "string"),
        pyarrow_field("c_preferred_cust_flag", "string"),
        pyarrow_field("c_birth_day", "int32"),
        pyarrow_field("c_birth_month", "int32"),
        pyarrow_field("c_birth_year", "int32"),
        pyarrow_field("c_birth_country", "string"),
        pyarrow_field("c_login", "string"),
        pyarrow_field("c_email_address", "string"),
        pyarrow_field("c_last_review_date_sk", "string")
      >> >>,
    <<"web_site",
      <<
        pyarrow_field("web_site_sk", "int32"),
        pyarrow_field("web_site_id", "string"),
        pyarrow_field("web_rec_start_date", "date32"),
        pyarrow_field("web_rec_end_date", "date32"),
        pyarrow_field("web_name", "string"),
        pyarrow_field("web_open_date_sk", "int32"),
        pyarrow_field("web_close_date_sk", "int32"),
        pyarrow_field("web_class", "string"),
        pyarrow_field("web_manager", "string"),
        pyarrow_field("web_mkt_id", "int32"),
        pyarrow_field("web_mkt_class", "string"),
        pyarrow_field("web_mkt_desc", "string"),
        pyarrow_field("web_market_manager", "string"),
        pyarrow_field("web_company_id", "int32"),
        pyarrow_field("web_company_name", "string"),
        pyarrow_field("web_street_number", "string"),
        pyarrow_field("web_street_name", "string"),
        pyarrow_field("web_street_type", "string"),
        pyarrow_field("web_suite_number", "string"),
        pyarrow_field("web_city", "string"),
        pyarrow_field("web_county", "string"),
        pyarrow_field("web_state", "string"),
        pyarrow_field("web_zip", "string"),
        pyarrow_field("web_country", "string"),
        pyarrow_field("web_gmt_offset", "decimal128(5, 2)"),
        pyarrow_field("web_tax_percentage", "decimal128(5, 2)")
      >> >>,
    <<"store_returns",
      <<
        pyarrow_field("sr_returned_date_sk", "int32"),
        pyarrow_field("sr_return_time_sk", "int32"),
        pyarrow_field("sr_item_sk", "int32"),
        pyarrow_field("sr_customer_sk", "int32"),
        pyarrow_field("sr_cdemo_sk", "int32"),
        pyarrow_field("sr_hdemo_sk", "int32"),
        pyarrow_field("sr_addr_sk", "int32"),
        pyarrow_field("sr_store_sk", "int32"),
        pyarrow_field("sr_reason_sk", "int32"),
        pyarrow_field("sr_ticket_number", "int32"),
        pyarrow_field("sr_return_quantity", "int32"),
        pyarrow_field("sr_return_amt", "decimal128(7, 2)"),
        pyarrow_field("sr_return_tax", "decimal128(7, 2)"),
        pyarrow_field("sr_return_amt_inc_tax", "decimal128(7, 2)"),
        pyarrow_field("sr_fee", "decimal128(7, 2)"),
        pyarrow_field("sr_return_ship_cost", "decimal128(7, 2)"),
        pyarrow_field("sr_refunded_cash", "decimal128(7, 2)"),
        pyarrow_field("sr_reversed_charge", "decimal128(7, 2)"),
        pyarrow_field("sr_store_credit", "decimal128(7, 2)"),
        pyarrow_field("sr_net_loss", "decimal128(7, 2)")
      >> >>,
    <<"household_demographics",
      <<
        pyarrow_field("hd_demo_sk", "int32"),
        pyarrow_field("hd_income_band_sk", "int32"),
        pyarrow_field("hd_buy_potential", "string"),
        pyarrow_field("hd_dep_count", "int32"),
        pyarrow_field("hd_vehicle_count", "int32")
      >> >>,
    <<"web_page",
      <<
        pyarrow_field("wp_web_page_sk", "int32"),
        pyarrow_field("wp_web_page_id", "string"),
        pyarrow_field("wp_rec_start_date", "date32"),
        pyarrow_field("wp_rec_end_date", "date32"),
        pyarrow_field("wp_creation_date_sk", "int32"),
        pyarrow_field("wp_access_date_sk", "int32"),
        pyarrow_field("wp_autogen_flag", "string"),
        pyarrow_field("wp_customer_sk", "int32"),
        pyarrow_field("wp_url", "string"),
        pyarrow_field("wp_type", "string"),
        pyarrow_field("wp_char_count", "int32"),
        pyarrow_field("wp_link_count", "int32"),
        pyarrow_field("wp_image_count", "int32"),
        pyarrow_field("wp_max_ad_count", "int32")
      >> >>,
    <<"promotion",
      <<
        pyarrow_field("p_promo_sk", "int32"),
        pyarrow_field("p_promo_id", "string"),
        pyarrow_field("p_start_date_sk", "int32"),
        pyarrow_field("p_end_date_sk", "int32"),
        pyarrow_field("p_item_sk", "int32"),
        pyarrow_field("p_cost", "decimal128(15, 2)"),
        pyarrow_field("p_response_target", "int32"),
        pyarrow_field("p_promo_name", "string"),
        pyarrow_field("p_channel_dmail", "string"),
        pyarrow_field("p_channel_email", "string"),
        pyarrow_field("p_channel_catalog", "string"),
        pyarrow_field("p_channel_tv", "string"),
        pyarrow_field("p_channel_radio", "string"),
        pyarrow_field("p_channel_press", "string"),
        pyarrow_field("p_channel_event", "string"),
        pyarrow_field("p_channel_demo", "string"),
        pyarrow_field("p_channel_details", "string"),
        pyarrow_field("p_purpose", "string"),
        pyarrow_field("p_discount_active", "string")
      >> >>,
    <<"catalog_page",
      <<
        pyarrow_field("cp_catalog_page_sk", "int32"),
        pyarrow_field("cp_catalog_page_id", "string"),
        pyarrow_field("cp_start_date_sk", "int32"),
        pyarrow_field("cp_end_date_sk", "int32"),
        pyarrow_field("cp_department", "string"),
        pyarrow_field("cp_catalog_number", "int32"),
        pyarrow_field("cp_catalog_page_number", "int32"),
        pyarrow_field("cp_description", "string"),
        pyarrow_field("cp_type", "string")
      >> >>,
    <<"inventory",
      <<
        pyarrow_field("inv_date_sk", "int32"),
        pyarrow_field("inv_item_sk", "int32"),
        pyarrow_field("inv_warehouse_sk", "int32"),
        pyarrow_field("inv_quantity_on_hand", "int32")
      >> >>,
    <<"catalog_returns",
      <<
        pyarrow_field("cr_returned_date_sk", "int32"),
        pyarrow_field("cr_returned_time_sk", "int32"),
        pyarrow_field("cr_item_sk", "int32"),
        pyarrow_field("cr_refunded_customer_sk", "int32"),
        pyarrow_field("cr_refunded_cdemo_sk", "int32"),
        pyarrow_field("cr_refunded_hdemo_sk", "int32"),
        pyarrow_field("cr_refunded_addr_sk", "int32"),
        pyarrow_field("cr_returning_customer_sk", "int32"),
        pyarrow_field("cr_returning_cdemo_sk", "int32"),
        pyarrow_field("cr_returning_hdemo_sk", "int32"),
        pyarrow_field("cr_returning_addr_sk", "int32"),
        pyarrow_field("cr_call_center_sk", "int32"),
        pyarrow_field("cr_catalog_page_sk", "int32"),
        pyarrow_field("cr_ship_mode_sk", "int32"),
        pyarrow_field("cr_warehouse_sk", "int32"),
        pyarrow_field("cr_reason_sk", "int32"),
        pyarrow_field("cr_order_number", "int32"),
        pyarrow_field("cr_return_quantity", "int32"),
        pyarrow_field("cr_return_amount", "decimal128(7, 2)"),
        pyarrow_field("cr_return_tax", "decimal128(7, 2)"),
        pyarrow_field("cr_return_amt_inc_tax", "decimal128(7, 2)"),
        pyarrow_field("cr_fee", "decimal128(7, 2)"),
        pyarrow_field("cr_return_ship_cost", "decimal128(7, 2)"),
        pyarrow_field("cr_refunded_cash", "decimal128(7, 2)"),
        pyarrow_field("cr_reversed_charge", "decimal128(7, 2)"),
        pyarrow_field("cr_store_credit", "decimal128(7, 2)"),
        pyarrow_field("cr_net_loss", "decimal128(7, 2)")
      >> >>,
    <<"web_returns",
      <<
        pyarrow_field("wr_returned_date_sk", "int32"),
        pyarrow_field("wr_returned_time_sk", "int32"),
        pyarrow_field("wr_item_sk", "int32"),
        pyarrow_field("wr_refunded_customer_sk", "int32"),
        pyarrow_field("wr_refunded_cdemo_sk", "int32"),
        pyarrow_field("wr_refunded_hdemo_sk", "int32"),
        pyarrow_field("wr_refunded_addr_sk", "int32"),
        pyarrow_field("wr_returning_customer_sk", "int32"),
        pyarrow_field("wr_returning_cdemo_sk", "int32"),
        pyarrow_field("wr_returning_hdemo_sk", "int32"),
        pyarrow_field("wr_returning_addr_sk", "int32"),
        pyarrow_field("wr_web_page_sk", "int32"),
        pyarrow_field("wr_reason_sk", "int32"),
        pyarrow_field("wr_order_number", "int32"),
        pyarrow_field("wr_return_quantity", "int32"),
        pyarrow_field("wr_return_amt", "decimal128(7, 2)"),
        pyarrow_field("wr_return_tax", "decimal128(7, 2)"),
        pyarrow_field("wr_return_amt_inc_tax", "decimal128(7, 2)"),
        pyarrow_field("wr_fee", "decimal128(7, 2)"),
        pyarrow_field("wr_return_ship_cost", "decimal128(7, 2)"),
        pyarrow_field("wr_refunded_cash", "decimal128(7, 2)"),
        pyarrow_field("wr_reversed_charge", "decimal128(7, 2)"),
        pyarrow_field("wr_account_credit", "decimal128(7, 2)"),
        pyarrow_field("wr_net_loss", "decimal128(7, 2)")
      >> >>,
    <<"web_sales",
      <<
        pyarrow_field("ws_sold_date_sk", "int32"),
        pyarrow_field("ws_sold_time_sk", "int32"),
        pyarrow_field("ws_ship_date_sk", "int32"),
        pyarrow_field("ws_item_sk", "int32"),
        pyarrow_field("ws_bill_customer_sk", "int32"),
        pyarrow_field("ws_bill_cdemo_sk", "int32"),
        pyarrow_field("ws_bill_hdemo_sk", "int32"),
        pyarrow_field("ws_bill_addr_sk", "int32"),
        pyarrow_field("ws_ship_customer_sk", "int32"),
        pyarrow_field("ws_ship_cdemo_sk", "int32"),
        pyarrow_field("ws_ship_hdemo_sk", "int32"),
        pyarrow_field("ws_ship_addr_sk", "int32"),
        pyarrow_field("ws_web_page_sk", "int32"),
        pyarrow_field("ws_web_site_sk", "int32"),
        pyarrow_field("ws_ship_mode_sk", "int32"),
        pyarrow_field("ws_warehouse_sk", "int32"),
        pyarrow_field("ws_promo_sk", "int32"),
        pyarrow_field("ws_order_number", "int32"),
        pyarrow_field("ws_quantity", "int32"),
        pyarrow_field("ws_wholesale_cost", "decimal128(7, 2)"),
        pyarrow_field("ws_list_price", "decimal128(7, 2)"),
        pyarrow_field("ws_sales_price", "decimal128(7, 2)"),
        pyarrow_field("ws_ext_discount_amt", "decimal128(7, 2)"),
        pyarrow_field("ws_ext_sales_price", "decimal128(7, 2)"),
        pyarrow_field("ws_ext_wholesale_cost", "decimal128(7, 2)"),
        pyarrow_field("ws_ext_list_price", "decimal128(7, 2)"),
        pyarrow_field("ws_ext_tax", "decimal128(7, 2)"),
        pyarrow_field("ws_coupon_amt", "decimal128(7, 2)"),
        pyarrow_field("ws_ext_ship_cost", "decimal128(7, 2)"),
        pyarrow_field("ws_net_paid", "decimal128(7, 2)"),
        pyarrow_field("ws_net_paid_inc_tax", "decimal128(7, 2)"),
        pyarrow_field("ws_net_paid_inc_ship", "decimal128(7, 2)"),
        pyarrow_field("ws_net_paid_inc_ship_tax", "decimal128(7, 2)"),
        pyarrow_field("ws_net_profit", "decimal128(7, 2)")
      >> >>,
    <<"catalog_sales",
      <<
        pyarrow_field("cs_sold_date_sk", "int32"),
        pyarrow_field("cs_sold_time_sk", "int32"),
        pyarrow_field("cs_ship_date_sk", "int32"),
        pyarrow_field("cs_bill_customer_sk", "int32"),
        pyarrow_field("cs_bill_cdemo_sk", "int32"),
        pyarrow_field("cs_bill_hdemo_sk", "int32"),
        pyarrow_field("cs_bill_addr_sk", "int32"),
        pyarrow_field("cs_ship_customer_sk", "int32"),
        pyarrow_field("cs_ship_cdemo_sk", "int32"),
        pyarrow_field("cs_ship_hdemo_sk", "int32"),
        pyarrow_field("cs_ship_addr_sk", "int32"),
        pyarrow_field("cs_call_center_sk", "int32"),
        pyarrow_field("cs_catalog_page_sk", "int32"),
        pyarrow_field("cs_ship_mode_sk", "int32"),
        pyarrow_field("cs_warehouse_sk", "int32"),
        pyarrow_field("cs_item_sk", "int32"),
        pyarrow_field("cs_promo_sk", "int32"),
        pyarrow_field("cs_order_number", "int32"),
        pyarrow_field("cs_quantity", "int32"),
        pyarrow_field("cs_wholesale_cost", "decimal128(7, 2)"),
        pyarrow_field("cs_list_price", "decimal128(7, 2)"),
        pyarrow_field("cs_sales_price", "decimal128(7, 2)"),
        pyarrow_field("cs_ext_discount_amt", "decimal128(7, 2)"),
        pyarrow_field("cs_ext_sales_price", "decimal128(7, 2)"),
        pyarrow_field("cs_ext_wholesale_cost", "decimal128(7, 2)"),
        pyarrow_field("cs_ext_list_price", "decimal128(7, 2)"),
        pyarrow_field("cs_ext_tax", "decimal128(7, 2)"),
        pyarrow_field("cs_coupon_amt", "decimal128(7, 2)"),
        pyarrow_field("cs_ext_ship_cost", "decimal128(7, 2)"),
        pyarrow_field("cs_net_paid", "decimal128(7, 2)"),
        pyarrow_field("cs_net_paid_inc_tax", "decimal128(7, 2)"),
        pyarrow_field("cs_net_paid_inc_ship", "decimal128(7, 2)"),
        pyarrow_field("cs_net_paid_inc_ship_tax", "decimal128(7, 2)"),
        pyarrow_field("cs_net_profit", "decimal128(7, 2)")
      >> >>,
    <<"store_sales",
      <<
        pyarrow_field("ss_sold_date_sk", "int32"),
        pyarrow_field("ss_sold_time_sk", "int32"),
        pyarrow_field("ss_item_sk", "int32"),
        pyarrow_field("ss_customer_sk", "int32"),
        pyarrow_field("ss_cdemo_sk", "int32"),
        pyarrow_field("ss_hdemo_sk", "int32"),
        pyarrow_field("ss_addr_sk", "int32"),
        pyarrow_field("ss_store_sk", "int32"),
        pyarrow_field("ss_promo_sk", "int32"),
        pyarrow_field("ss_ticket_number", "int32"),
        pyarrow_field("ss_quantity", "int32"),
        pyarrow_field("ss_wholesale_cost", "decimal128(7, 2)"),
        pyarrow_field("ss_list_price", "decimal128(7, 2)"),
        pyarrow_field("ss_sales_price", "decimal128(7, 2)"),
        pyarrow_field("ss_ext_discount_amt", "decimal128(7, 2)"),
        pyarrow_field("ss_ext_sales_price", "decimal128(7, 2)"),
        pyarrow_field("ss_ext_wholesale_cost", "decimal128(7, 2)"),
        pyarrow_field("ss_ext_list_price", "decimal128(7, 2)"),
        pyarrow_field("ss_ext_tax", "decimal128(7, 2)"),
        pyarrow_field("ss_coupon_amt", "decimal128(7, 2)"),
        pyarrow_field("ss_net_paid", "decimal128(7, 2)"),
        pyarrow_field("ss_net_paid_inc_tax", "decimal128(7, 2)"),
        pyarrow_field("ss_net_profit", "decimal128(7, 2)")
      >> >>
  >>

\* Largest value of --partitions of the convert subcommand.
MaxTpcdsPartitions == 3

\* `dict[key] = value` for a key the dict holds
Store(dict, key, value) ==
  [i \in 1..Len(dict) |-> IF dict[i][1] = key THEN <<key, value>> ELSE dict[i]]

\* convert_dat_to_parquet without .copy(): the null field is appended to the
\* list all_schemas holds.
convert_dat_to_parquet_in_place(schemas, tbl) ==
  IF ~HasKey(schemas, tbl) THEN Raised("KeyError", tbl)
  ELSE LET table_schema == Lookup(schemas, tbl)
           output_cols == [i \in 1..Len(table_schema) |-> table_schema[i].name]
           extended == Append(table_schema, pyarrow_field("some_null", "null"))
       IN Returned([all_schemas |-> Store(schemas, tbl, extended),
                    schema |-> extended,
                    written |-> output_cols])

\* convert_dat_to_parquet(ctx, table, ...) with all_schemas in state
\* `schemas`: the schema handed to read_csv, the columns selected and
\* written, and all_schemas afterwards.  table_schema is a copy, so the
\* append does not reach the list all_schemas holds.
convert_dat_to_parquet(schemas, tbl) ==
  IF ~HasKey(schemas, tbl) THEN Raised("KeyError", tbl)
  ELSE LET table_schema == Lookup(schemas, tbl)
           output_cols == [i \in 1..Len(table_schema) |-> table_schema[i].name]
           extended == Append(table_schema, pyarrow_field("some_null", "null"))
       IN Returned([all_schemas |-> schemas,
                    schema |-> extended,
                    written |-> output_cols])

\* The passes of the loops of convert_tpcds as <<table, part>>, part 0 for
\* the one file of the partitions == 1 branch.
RECURSIVE TpcdsPlanFrom(_, _)
TpcdsPlanFrom(i, n) ==
  IF i > Len(Tpcds_table_names) THEN <<>>
  ELSE (IF n = 1 THEN << <<Tpcds_table_names[i], 0>> >>
        ELSE [part \in 1..n |-> <<Tpcds_table_names[i], part>>])
       \o TpcdsPlanFrom(i + 1, n)

TpcdsPlan(n) == TpcdsPlanFrom(1, n)

TpcdsInit ==
  /\ CatalogIdle
  /\ GenIdle
  /\ TpchIdle
  /\ CmpIdle
  /\ rng = [x |-> 0, gauss_next |-> None]
  /\ args = NoArgs
  /\ suites = Registries(args.registry)
  /\ names = None
  /\ RunIdle("idle")
  /\ BenchIdle
  /\ ChartIdle
  /\ tpcds_partitions \in 1..MaxTpcdsPartitions
  /\ tpcds_schemas = all_schemas
  /\ tpcds_next = 0
  /\ tpcds_last = None
  /\ tpcds_pc = "convert"

\* One pass of the inner loop of convert_tpcds.  With partitions == 1 the
\* file is converted unconditionally and read_csv raises when it is not
\* there; otherwise a part whose file does not exist is skipped.
ConvertDat ==
  /\ tpcds_pc = "convert"
  /\ LET plan == TpcdsPlan(tpcds_partitions)
         pass == plan[tpcds_next + 1]
         out == convert_dat_to_parquet(tpcds_schemas, pass[1])
         after == IF tpcds_next + 1 = Len(plan) THEN "done" ELSE "convert"
     IN  \E exists \in BOOLEAN :
           IF ~exists /\ tpcds_partitions # 1
           THEN /\ tpcds_last' = None
                /\ tpcds_next' = tpcds_next + 1
                /\ tpcds_pc' = after
                /\ UNCHANGED tpcds_schemas
           ELSE IF out.raised # "none"
           THEN /\ tpcds_pc' = "raised " \o out.raised
                /\ UNCHANGED <<tpcds_schemas, tpcds_next, tpcds_last>>
           ELSE /\ tpcds_schemas' = out.value.all_schemas
                /\ tpcds_last' = Some([table |-> pass[1], part |-> pass[2],
                                       schema |-> out.value.schema,
                                       written |-> IF exists THEN out.value.written
                                                   ELSE <<>>])
                /\ IF exists
                   THEN tpcds_next' = tpcds_next + 1 /\ tpcds_pc' = after
                   ELSE tpcds_pc' = "raised FileNotFound" /\ UNCHANGED tpcds_next
  /\ UNCHANGED <<call, genVars, runVars, tpchVars, cmpVars, suites, names,
                 tpcds_partitions, bench, speedup_chart>>

TpcdsNext == ConvertDat

SpecTpcds == TpcdsInit /\ [][TpcdsNext]_vars

\* ---------------------------------------------------------------------
\* runners/datafusion-python/tpcbench.py and runners/spark/tpcbench.py
\* ---------------------------------------------------------------------

\* Longest query file text, in characters.
MaxText == 2

\* The characters of a query file: a letter of SQL, a blank, the separator.
Chars == {"s", " ", ";"}

Whitespace == {" "}

RECURSIVE TextsOf(_)
TextsOf(n) ==
  IF n = 0 THEN {<<>>}
  ELSE TextsOf(n - 1) \cup
       {Append(t, c) : t \in {u \in TextsOf(n - 1) : Len(u) = n - 1}, c \in Chars}

Texts == TextsOf(MaxText)

\* str.split(sep): the pieces between the separators, empty ones included.
RECURSIVE SplitFrom(_, _, _, _)
SplitFrom(text, sep, i, piece) ==
  IF i > Len(text) THEN <<piece>>
  ELSE IF text[i] = sep THEN <<piece>> \o SplitFrom(text, sep, i + 1, <<>>)
  ELSE SplitFrom(text, sep, i + 1, Append(piece, text[i]))

Split(text, sep) == SplitFrom(text, sep, 1, <<>>)

\* str.strip(): leading and trailing whitespace removed.
RECURSIVE Strip(_)
Strip(s) ==
  IF s = <<>> THEN s
  ELSE IF s[1] \in Whitespace THEN Strip(Tail(s))
  ELSE IF s[Len(s)] \in Whitespace THEN Strip(SubSeq(s, 1, Len(s) - 1))
  ELSE s

Runners == {"datafusion-python", "spark"}

Benchmarks == {"tpch", "tpcds", "tpcx"}

Tpch_table_names ==
  <<"customer", "lineitem", "nation", "orders", "part", "partsupp", "region", "supplier">>

Bench_tpcds_table_names ==
  <<"call_center", "catalog_page", "catalog_returns", "catalog_sales", "customer",
    "customer_address", "customer_demographics", "date_dim", "time_dim",
    "household_demographics", "income_band", "inventory", "item", "promotion",
    "reason", "ship_mode", "store", "store_returns", "store_sales", "warehouse",
    "web_page", "web_returns", "web_sales", "web_site">>

\* The if/elif/else on the benchmark name: the tables to register, or the
\* TypeError Python gives for raising a string.
BenchTables(runner, benchmark) ==
  IF benchmark = "tpch" THEN Returned(Tpch_table_names)
  ELSE IF benchmark = "tpcds" /\ runner = "datafusion-python"
  THEN Returned(Bench_tpcds_table_names)
  ELSE Raised("TypeError", "exceptions must derive from BaseException")

\* range(1, 23)
QueryRange == 1..22

\* `if len(sql) > 0` taken for every fragment
Executes_every_fragment(sql) == TRUE

\* `if len(sql) > 0`
Executes(sql) == Len(sql) > 0

BenchInit ==
  /\ CatalogIdle
  /\ GenIdle
  /\ TpchIdle
  /\ CmpIdle
  /\ TpcdsIdle
  /\ ChartIdle
  /\ rng = [x |-> 0, gauss_next |-> None]
  /\ args = NoArgs
  /\ suites = Registries(args.registry)
  /\ names = None
  /\ RunIdle("idle")
  /\ \E runner \in Runners, benchmark \in Benchmarks :
       bench = [pc |-> "start", runner |-> runner, benchmark |-> benchmark,
                session |-> "none", registered |-> <<>>, query |-> 0,
                queries |-> <<>>, next |-> 0, executed |-> 0, last |-> None,
                exc |-> "none"]

BenchUnchanged ==
  UNCHANGED <<call, genVars, runVars, tpchVars, cmpVars, suites, names, tpcdsVars, speedup_chart>>

BenchRaise(type) == bench' = [bench EXCEPT !.pc = "raised", !.exc = type]

\* main up to the first loop.  The Spark runner creates its session before
\* it looks at the benchmark name, the DataFusion runner its context after.
SelectTables ==
  /\ bench.pc = "start"
  /\ LET tables == BenchTables(bench.runner, bench.benchmark)
         session == IF bench.runner = "spark" THEN "open" ELSE "none"
     IN  IF tables.raised # "none"
         THEN bench' = [bench EXCEPT !.pc = "raised", !.exc = tables.raised,
                                     !.session = session]
         ELSE bench' = [bench EXCEPT !.pc = "register", !.session = session]
  /\ BenchUnchanged

\* One pass of `for table in table_names`; registering may raise.
RegisterTable ==
  /\ bench.pc = "register"
  /\ LET tables == BenchTables(bench.runner, bench.benchmark).value
         tbl == tables[Len(bench.registered) + 1]
     IN  \E ok \in BOOLEAN :
           IF ~ok THEN BenchRaise("register")
           ELSE bench' = [bench EXCEPT
                  !.registered = Append(@, tbl),
                  !.pc = IF Len(bench.registered) + 1 = Len(tables) THEN "read"
                         ELSE "register",
                  !.query = IF Len(bench.registered) + 1 = Len(tables) THEN 1 ELSE 0]
  /\ BenchUnchanged

\* The head of one pass of `for query in range(1, 23)`: open, read, split.
ReadQuery ==
  /\ bench.pc = "read"
  /\ \/ BenchRaise("FileNotFoundError")
     \/ \E text \in Texts :
          bench' = [bench EXCEPT !.pc = "statements",
                                 !.queries = Split(text, ";"),
                                 !.next = 0, !.executed = 0]
  /\ BenchUnchanged

\* One pass of `for sql in queries`.
Statement ==
  /\ bench.pc = "statements"
  /\ bench.next < Len(bench.queries)
  /\ LET sql == Strip(bench.queries[bench.next + 1])
     IN  IF Executes(sql)
         THEN \E ok \in BOOLEAN :
                IF ~ok THEN BenchRaise("sql")
                ELSE bench' = [bench EXCEPT
                       !.next = @ + 1, !.executed = @ + 1,
                       !.last = Some([query |-> bench.query, fragment |-> bench.next + 1,
                                      sql |-> sql])]
         ELSE bench' = [bench EXCEPT !.next = @ + 1]
  /\ BenchUnchanged

\* The end of `for sql in queries`: the next query file, or, after the
\* last one, the end of main, where the Spark runner stops its session.
EndQuery ==
  /\ bench.pc = "statements"
  /\ bench.next = Len(bench.queries)
  /\ IF bench.query + 1 \notin QueryRange
     THEN bench' = [bench EXCEPT
            !.pc = "done",
            !.session = IF bench.runner = "spark" THEN "stopped" ELSE @]
     ELSE bench' = [bench EXCEPT !.pc = "read", !.query = @ + 1]
  /\ BenchUnchanged

BenchNext == SelectTables \/ RegisterTable \/ ReadQuery \/ Statement \/ EndQuery

SpecBench == BenchInit /\ [][BenchNext]_vars

\* ---------------------------------------------------------------------
\* scripts/generate-comparison.py: the speedups of the speedup chart
\* ---------------------------------------------------------------------

\* Largest timing of a log, in whole time units.
MaxSample == 3

\* Signed floats of the chart: the exact fraction <<numerator, denominator>>
\* in lowest terms, the sign in the numerator.
Magnitude(n) == IF n < 0 THEN -n ELSE n

Signed(n, d) == LET g == GCD(Magnitude(n), d) IN <<n \div g, d \div g>>

\* a - b
SignedSub(a, b) == Signed(a[1] * b[2] - b[1] * a[2], a[2] * b[2])

\* -a
SignedNeg(a) == <<-a[1], a[2]>>

\* a / b for b > 0
SignedDiv(a, b) == Signed(a[1] * b[2], a[2] * b[1])

\* a > b
SignedGt(a, b) == a[1] * b[2] > b[1] * a[2]

\* round(x * 100, 0) of a numpy float: the nearest whole number, ties to even.
round_percent(x) ==
  LET n == 100 * x[1]
      q == n \div x[2]
      r == n % x[2]
  IN  Float(IF 2 * r > x[2] THEN q + 1
            ELSE IF 2 * r < x[2] THEN q
            ELSE IF q % 2 = 0 THEN q ELSE q + 1)

\* The list with `value` put after the last element not greater than it.
RECURSIVE InsertSample(_, _)
InsertSample(sorted, value) ==
  IF sorted = <<>> THEN <<value>>
  ELSE IF value < Head(sorted) THEN <<value>> \o sorted
  ELSE <<Head(sorted)>> \o InsertSample(Tail(sorted), value)

RECURSIVE SortSamples(_)
SortSamples(samples) ==
  IF samples = <<>> THEN <<>>
  ELSE InsertSample(SortSamples(SubSeq(samples, 1, Len(samples) - 1)),
                    samples[Len(samples)])

\* np.median(np.array(samples)): the middle sample, or the mean of the two
\* middle ones.
median(samples) ==
  LET sorted == SortSamples(samples)
      half == Len(sorted) \div 2
  IN  IF Len(sorted) % 2 = 1 THEN Float(sorted[half + 1])
      ELSE Signed(sorted[half] + sorted[half + 1], 2)

\* The speedup with one formula for both orders of a and b.
query_speedup_one_branch(a, b) == SignedSub(SignedDiv(a, b), Float(1))

\* if a > b: speedup = a/b-1  else: speedup = -(1/(a/b)-1)
query_speedup(a, b) ==
  IF SignedGt(a, b) THEN SignedSub(SignedDiv(a, b), Float(1))
  ELSE SignedNeg(SignedSub(SignedDiv(Float(1), SignedDiv(a, b)), Float(1)))

\* The loop over range(1, 23): ("q" + str(query), round(speedup*100, 0)) and,
\* beside it, the speedup before rounding.
SpeedupResults(base, comp) ==
  [query \in QueryRange |->
     LET a == median(base[query])
         b == median(comp[query])
     IN  [name |-> <<"q", query>>,
          speedup |-> query_speedup(a, b),
          percent |-> round_percent(query_speedup(a, b))]]

\* sorted(results, key=lambda x: -x[1]): stable, largest percentage first.
RECURSIVE InsertResult(_, _)
InsertResult(sorted, result) ==
  IF sorted = <<>> THEN <<result>>
  ELSE IF SignedGt(result.percent, Head(sorted).percent) THEN <<result>> \o sorted
  ELSE <<Head(sorted)>> \o InsertResult(Tail(sorted), result)

RECURSIVE SortedResults(_)
SortedResults(unsorted) ==
  IF unsorted = <<>> THEN <<>>
  ELSE InsertResult(SortedResults(SubSeq(unsorted, 1, Len(unsorted) - 1)),
                    unsorted[Len(unsorted)])

\* The timings of one query in the log with offset k, stride d and n
\* samples per query.
Timings(k, d, n, query) ==
  [i \in 1..n |-> 1 + ((k + d * query + (i - 1) * (query + 1)) % MaxSample)]

\* Complete logs: every query of range(1, 23) has one or two timings.
TimingLogs ==
  {[query \in QueryRange |-> Timings(k, d, n, query)] :
     k \in 0..(MaxSample - 1), d \in 0..(MaxSample - 1), n \in 1..2}

ChartInit ==
  /\ CatalogIdle
  /\ GenIdle
  /\ TpchIdle
  /\ CmpIdle
  /\ TpcdsIdle
  /\ BenchIdle
  /\ rng = [x |-> 0, gauss_next |-> None]
  /\ args = NoArgs
  /\ suites = Registries(args.registry)
  /\ names = None
  /\ RunIdle("idle")
  /\ \E base \in TimingLogs, comp \in TimingLogs :
       speedup_chart = [pc |-> "start", baseline |-> base, comparison |-> comp]

\* generate_query_speedup_chart(baseline, comparison, ...) up to the bars.
DrawSpeedupChart ==
  /\ speedup_chart.pc = "start"
  /\ LET unsorted == SpeedupResults(speedup_chart.baseline, speedup_chart.comparison)
     IN  speedup_chart' =
           [pc |-> "drawn",
            baseline |-> speedup_chart.baseline,
            comparison |-> speedup_chart.comparison,
            results |-> unsorted,
            bars |-> SortedResults(unsorted)]
  /\ UNCHANGED <<call, genVars, runVars, tpchVars, cmpVars, suites, names, tpcdsVars,
                 bench>>

ChartNext == DrawSpeedupChart

SpecChart == ChartInit /\ [][ChartNext]_vars

\* A partition's generation command failed: it exited with a non-zero status
\* or run_and_log_output raised.
CommandFailed(p) == futures[p] \in {"exit_nonzero", "raised"}

\* C14: in multi-partition generation the failure of one partition's command
\* is caught and reported for that partition only (a handled future is
\* reported exactly when its command failed), every partition's command is
\* submitted and has run to completion once the wait is over, and
\* generate_tpch is not ended by an exception because a command failed.
C14_PartitionFailureIsolated ==
  partitions > 1 =>
    /\ \A p \in Range(handled) : (p \in reported <=> CommandFailed(p))
    /\ tpch_pc \in {"convert", "done", "raised"} =>
         /\ Len(futures) = partitions
         /\ \A p \in 1..partitions : Finished(futures[p])
    /\ tpch_pc = "raised" => \A p \in 1..partitions : ~CommandFailed(p)

Complete(timing_log) == Range(QueryKeys) \subseteq timing_log

\* The keys one chart function has read from one log, in order.
KeysOf(chart, name) ==
  LET RECURSIVE Pick(_)
      Pick(k) ==
        IF k > Len(keys_read) THEN <<>>
        ELSE IF keys_read[k][1] = chart /\ keys_read[k][2] = name
             THEN <<keys_read[k][3]>> \o Pick(k + 1)
             ELSE Pick(k + 1)
  IN  Pick(1)

Charts ==
  [generate_summary |-> "tpch_allqueries.png",
   generate_query_comparison_chart |-> "tpch_queries_compare.png",
   generate_query_speedup_chart |-> "tpch_queries_speedup.png"]

\* C15: the comparison tool reads from each log exactly the keys "1".."22",
\* once per query, in the summary and in each chart (a function that wrote
\* its image read the 22 keys of each log in query order, and no key but
\* these is ever read); logs that hold other keys besides are processed to
\* the end; and when either log lacks one of the 22 keys the tool fails
\* with no image written.
C15_ReadsExactlyQueryKeys ==
  /\ \A k \in 1..Len(keys_read) : \E q \in 1..22 : keys_read[k][3] = QueryKeys[q]
  /\ \A chart \in DOMAIN Charts :
       Charts[chart] \in Range(images) =>
         \A name \in {"baseline", "comparison"} :
           /\ Len(KeysOf(chart, name)) = 22
           /\ \A q \in 1..22 : KeysOf(chart, name)[q] = QueryKeys[q]
  /\ (Complete(baseline) /\ Complete(comparison)) => cmp_pc # "raised"
  /\ ~(Complete(baseline) /\ Complete(comparison)) =>
       /\ images = <<>>
       /\ cmp_pc \in {"generate_summary", "raised"}

\* The second log lacks the last key and the first holds a key outside the
\* range: the summary has read 43 keys, failed on the 44th lookup, and no
\* image exists.
C15_Witness ==
  /\ cmp_pc = "raised"
  /\ "23" \in baseline /\ Complete(baseline)
  /\ comparison = Range(QueryKeys) \ {"22"}
  /\ Len(keys_read) = 43
  /\ images = <<>>

\* C16: a benchmark run is a strict pipeline.  The file holds the generated
\* table and nothing else; a session exists only once the file was written;
\* benchmark calls are made only with both sessions open; the DuckDB
\* connection is closed only after the last case; and the temporary file is
\* deleted only when no session is open any more.
C16_StrictPipeline ==
  /\ parquet # None => (table # None /\ parquet = table /\ tmpdir = "exists")
  /\ (df_ctx # "none" \/ duck_conn # "none") => (parquet # None \/ tmpdir = "deleted")
  /\ duck_conn # "none" => df_ctx # "none"
  /\ attempted # <<>> => (df_ctx # "none" /\ duck_conn # "none")
  /\ pc \in {"loop", "datafusion", "duckdb", "append"} => (df_ctx = "open" /\ duck_conn = "open" /\ parquet # None)
  /\ duck_conn = "closed" => Len(results) = Len(cases)
  /\ tmpdir = "deleted" => (df_ctx # "open" /\ duck_conn # "open")

\* The j-th benchmark call of a strictly sequential run: case by case, and
\* for each case DataFusion first, DuckDB second.
SequentialCall(j) == <<(j + 1) \div 2, IF j % 2 = 1 THEN "datafusion" ELSE "duckdb">>

\* C17: the timed path is strictly sequential.  The benchmark calls begin in
\* the order case 1 DataFusion, case 1 DuckDB, case 2 DataFusion, ...; every
\* query execution belongs to the call begun last, so when a call begins all
\* runs of the calls before it are over; the DuckDB call of a case starts
\* only when the DataFusion call of that case has returned or raised; and
\* between two calls no query is in flight.
C17_StrictlySequential ==
  /\ [](\A j \in 1..Len(attempted) : attempted[j] = SequentialCall(j))
  /\ [][log'.runs # log.runs /\ log'.runs # <<>> =>
          /\ attempted' # <<>>
          /\ attempted'[Len(attempted')] = <<idx, log'.engine>>
          /\ log'.idx = idx
          /\ Len(log'.runs) = (IF log.finished \/ log.engine # log'.engine
                               THEN 0 ELSE Len(log.runs)) + 1]_vars
  /\ [](pc = "duckdb" =>
          /\ <<idx, "datafusion">> \in Range(attempted)
          /\ ~(log.engine = "datafusion" /\ ~log.finished))
  /\ [](pc \in {"loop", "append", "close"} => (log = NoLog \/ log.finished))

\* C17 witness: a returned run of two cases, four benchmark calls in order,
\* the last of which made a warmup run and a timed run.
C17_Witness ==
  /\ pc = "returned"
  /\ attempted = << <<1, "datafusion">>, <<1, "duckdb">>, <<2, "datafusion">>,
                    <<2, "duckdb">> >>
  /\ args.warmup = 1 /\ args.iterations = 1
  /\ \A k \in 1..2 : ~IsNaN(results[k].duckdb_time_ms)

\* The latency variable of an engine.
TimeOf(engine) == IF engine = "datafusion" THEN df_time ELSE duck_time

\* C18: no retry.  No (case, engine) pair is attempted twice; a run that
\* raises is the last query of its call, whatever warmup and timed
\* iterations remain; the history of a call that is over never grows; the
\* latency of a pair whose run raised is the sentinel when its call is over
\* and is what the case's result holds.
C18_NoRetry ==
  /\ [](\A i, j \in 1..Len(attempted) : attempted[i] = attempted[j] => i = j)
  /\ [][log.finished =>
          ~(log'.engine = log.engine /\ log'.idx = log.idx /\ log'.runs # log.runs)]_vars
  /\ [](\A k \in 1..Len(log.runs) :
          log.runs[k].raised => (k = Len(log.runs) /\ log.finished))
  /\ []((log.finished /\ log.raised = "QueryError") =>
          (pc # "raised" => IsNaN(TimeOf(log.engine))))
  /\ [][pc = "duckdb" => df_time' = df_time]_vars
  /\ [][results' # results =>
          /\ Len(results') = Len(results) + 1
          /\ results'[Len(results')].datafusion_time_ms = df_time
          /\ results'[Len(results')].duckdb_time_ms = duck_time]_vars

\* C18 witness: the warmup run of DataFusion raised with one timed iteration
\* still to come; the call is over after that one query and DuckDB is next.
C18_Witness ==
  /\ pc = "duckdb"
  /\ args.warmup = 1 /\ args.iterations = 1
  /\ log.engine = "datafusion" /\ log.finished
  /\ Len(log.runs) = 1 /\ log.runs[1].raised /\ log.runs[1].phase = "warmup"
  /\ IsNaN(df_time)

(***************************************************************************)
(* A process that makes a benchmark run and then uses the suites package.  *)
(***************************************************************************)
RunOver == pc = "reported"

RegistryNext ==
  \/ Next
  \/ RunOver /\ CallGetSuite
  \/ RunOver /\ CallListSuites
  \/ RunOver /\ CallerEditsList

SpecRegistry == Init /\ [][RegistryNext]_vars

DefinedSuites == {strings_SUITE, temporal_SUITE, numeric_SUITE, conditional_SUITE}

\* C20: every suite the suites package defines is registered under its own
\* unique name: get_suite(suite.name) returns that suite and the list
\* list_suites returns contains its name.
C20_EveryDefinedSuiteRegistered ==
  /\ \A s, t \in DefinedSuites : s.name = t.name => s = t
  /\ \A s \in DefinedSuites :
       /\ (call.op = "get_suite" /\ call.arg[1] = s.name) => call.out = Returned(s)
       /\ call.op = "list_suites" => s.name \in Range(call.out.value)

\* The length of a day in the unit of the timestamps.
DaySeconds == timedelta(1, 0, 0, 0)

\* C21: in every table generate_temporal_data returns, for every row count,
\* both timestamp columns have one value per row and the second timestamp of
\* a row is later than the first by a whole number of days, between 1 and 30.
C21_SecondTimestampLater ==
  (genCall # None
     /\ genCall[1].g = "string_functions_benchmark.generate_temporal_data") =>
    LET ts == table[1].columns[1][3]
        ts2 == table[1].columns[2][3]
    IN  /\ table[1].columns[1][1] = "ts_col"
        /\ table[1].columns[2][1] = "ts_col2"
        /\ Len(ts) = genCall[1].num_rows
        /\ Len(ts2) = genCall[1].num_rows
        /\ \A i \in 1..Len(ts) :
             /\ ts2[i] > ts[i]
             /\ \E d \in 1..30 : ts2[i] - ts[i] = d * DaySeconds

\* C21 witness: a temporal table of MaxRows rows whose rows do not all have
\* the same distance between the two timestamps.
C21_Witness ==
  /\ genCall # None
  /\ genCall[1].g = "string_functions_benchmark.generate_temporal_data"
  /\ genCall[1].num_rows = MaxRows
  /\ LET ts == table[1].columns[1][3]
         ts2 == table[1].columns[2][3]
     IN  \E i, j \in 1..MaxRows : ts2[i] - ts[i] # ts2[j] - ts[j]

\* The result appended last.
LastResult(list) == list[Len(list)]

\* A result with two valid positive latencies.
BothPositive(r) ==
  /\ ~IsFailed(r)
  /\ FloatGt(r.datafusion_time_ms, Float(0))
  /\ FloatGt(r.duckdb_time_ms, Float(0))

\* C22: for a case with two valid positive latencies the progress line
\* printed when its result is appended names the engine and the ratio that
\* format_results_markdown puts in the case's row, a tie included; and the
\* rows of the report main prints are those rows.
C22_ProgressAgreesWithReport ==
  /\ [][(results' # results /\ progress' # None /\ BothPositive(LastResult(results'))) =>
          LET row == ReportRow(LastResult(results'))
          IN  /\ row.raised = "none"
              /\ Len(progress'[1]) = 3
              /\ progress'[1][2] = row.value[5]
              /\ progress'[1][3] = row.value[4]]_vars
  /\ []((pc = "reported" /\ report[1].raised = "none") =>
          \A k \in 1..Len(results) :
            report[1].value.rows[k] = ReportRow(results[k]).value)

\* C22 witness: a reported run whose last case is a tie of two valid
\* latencies: progress line and row both name DuckDB with ratio 1.00x.
C22_Witness ==
  /\ pc = "reported"
  /\ report[1].raised = "none"
  /\ BothPositive(LastResult(results))
  /\ LastResult(results).datafusion_time_ms = LastResult(results).duckdb_time_ms
  /\ progress = Some(<<TextCell("done"), TextCell("DuckDB"), NumCell(100, "x")>>)
  /\ report[1].value.rows[Len(results)][5] = TextCell("DuckDB")
  /\ report[1].value.rows[Len(results)][4] = NumCell(100, "x")

\* The rows of a report whose last cell is `label`.
RowsNaming(label) ==
  {k \in 1..Len(report[1].value.rows) : report[1].value.rows[k][5] = TextCell(label)}

\* C23: in every report with a summary, 'DataFusion faster' is the number of
\* rows naming DataFusion, 'DuckDB faster' the number of rows naming DuckDB,
\* and the two add up to 'Functions tested', which is the number of rows
\* that are not ERROR rows; a tie is counted for the engine its row names.
C23_SummaryCountsMatchRows ==
  (pc = "reported" /\ report[1].raised = "none" /\ report[1].value.summary # None) =>
    LET summary == report[1].value.summary[1]
    IN  /\ summary.df_wins = Cardinality(RowsNaming("DataFusion"))
        /\ summary.duck_wins = Cardinality(RowsNaming("DuckDB"))
        /\ summary.df_wins + summary.duck_wins = summary.tested
        /\ summary.tested = Len(report[1].value.rows) - Cardinality(RowsNaming("N/A"))

\* C23 witness: a report of a tie and a DataFusion win: one function counted
\* for each engine.
C23_Witness ==
  /\ pc = "reported"
  /\ report[1].raised = "none"
  /\ Len(results) = 2
  /\ BothPositive(results[1])
  /\ results[1].datafusion_time_ms = results[1].duckdb_time_ms
  /\ FloatLt(results[2].datafusion_time_ms, results[2].duckdb_time_ms)
  /\ report[1].value.summary[1].df_wins = 1
  /\ report[1].value.summary[1].duck_wins = 1

\* C24: with a timed iteration count of zero or less no timing sample
\* exists: every query made is a warmup run, a benchmark call that is over
\* has the sentinel as its latency, the ZeroDivisionError of the empty mean
\* never leaves run_benchmarks, a returned run holds one result per case
\* with the sentinel for both engines, and the report is ERROR rows only,
\* without a summary block.
C24_NoTimedIterations ==
  args.iterations <= 0 =>
    /\ times = <<>>
    /\ \A k \in 1..Len(log.runs) : log.runs[k].phase = "warmup"
    /\ log.finished =>
         /\ IsNaN(log.latency)
         /\ log.raised \in {"ZeroDivisionError", "QueryError"}
         /\ log.raised = "ZeroDivisionError" => Len(log.runs) = RangeLen(args.warmup)
    /\ exc # "ZeroDivisionError"
    /\ pc \in {"returned", "reported"} =>
         /\ Len(results) = Len(SuiteCases)
         /\ \A k \in 1..Len(results) :
              /\ IsNaN(results[k].datafusion_time_ms)
              /\ IsNaN(results[k].duckdb_time_ms)
    /\ pc = "reported" =>
         /\ report[1].raised = "none"
         /\ Len(report[1].value.rows) = Len(SuiteCases)
         /\ \A k \in 1..Len(report[1].value.rows) :
              report[1].value.rows[k] =
                <<TextCell(SuiteCases[k].name), TextCell("ERROR"), TextCell("ERROR"),
                  TextCell("N/A"), TextCell("N/A")>>
         /\ report[1].value.summary = None

\* C24 witness: a reported run of two cases with one warmup run and zero
\* timed iterations, in which no query raised.
C24_Witness ==
  /\ pc = "reported"
  /\ args.iterations = 0 /\ args.warmup = 1
  /\ Len(results) = 2
  /\ Len(attempted) = 4
  /\ report[1].value.summary = None
  /\ report[1].value.rows[2][2] = TextCell("ERROR")

\* A latency that is the failure sentinel or a number >= 0.
SentinelOrNonNegative(t) == IsNaN(t) \/ (IsFinite(t) /\ ~FloatLt(t, Float(0)))

\* C25: for every non-empty result list whose latencies are the sentinel or
\* numbers >= 0, zero included, the progress line of every case is printed
\* without an exception, format_results_markdown returns a report, and every
\* row of a valid case names an engine with a ratio of at least 1.
C25_ZeroLatencyHarmless ==
  (pc = "reported"
     /\ results # <<>>
     /\ \A k \in 1..Len(results) :
          /\ SentinelOrNonNegative(results[k].datafusion_time_ms)
          /\ SentinelOrNonNegative(results[k].duckdb_time_ms)) =>
    /\ \A k \in 1..Len(results) :
         ProgressLine(results[k].datafusion_time_ms,
                      results[k].duckdb_time_ms).raised = "none"
    /\ report[1].raised = "none"
    /\ \A k \in 1..Len(results) :
         ~IsFailed(results[k]) =>
           /\ report[1].value.rows[k][5] \in {TextCell("DataFusion"), TextCell("DuckDB")}
           /\ \/ report[1].value.rows[k][4].hundredths >= 100
              \/ report[1].value.rows[k][4] = TextCell("infx")

\* C26: in multi-partition generation exactly one command is submitted for
\* each partition 1..partitions (the i-th future is the command of partition
\* i and no more than `partitions` futures exist, all of them once the
\* submission is over); no two commands, running together or not, have the
\* same log file; and conversion starts only when every submitted command
\* has finished, with success or without.
C26_OneCommandPerPartition ==
  partitions > 1 =>
    LET commands == Commands(partitions)
    IN  /\ Len(futures) <= partitions
        /\ tpch_pc \notin {"start", "submit"} => Len(futures) = partitions
        /\ \A i \in 1..Len(futures) : commands[i].S = i /\ commands[i].C = partitions
        /\ \A i, j \in 1..Len(futures) :
             i # j => commands[i].log_file # commands[j].log_file
        /\ (tpch_pc \in {"convert", "done", "raised"} \/ converted # <<>>) =>
             \A p \in 1..partitions : Finished(futures[p])

\* C26 witness: three partitions, of which one succeeded, one exited with a
\* failure status and one raised; conversion has begun after all three.
C26_Witness ==
  /\ partitions = 3
  /\ futures = <<"ok", "exit_nonzero", "raised">>
  /\ Len(converted) = 1
  /\ tpch_pc = "convert"

\* C27: convert_dat_to_parquet leaves all_schemas unchanged; every
\* conversion of a table, for whichever part, reads with the table's declared
\* fields followed by the one null field and writes exactly the declared
\* columns in declared order, the null column not among them; and every name
\* of table_names has a schema, so no conversion fails for want of one.
C27_SchemasUnchanged ==
  tpcds_pc # "idle" =>
    /\ tpcds_schemas = all_schemas
    /\ \A i \in 1..Len(Tpcds_table_names) : HasKey(all_schemas, Tpcds_table_names[i])
    /\ tpcds_pc # "raised KeyError"
    /\ (tpcds_last # None /\ tpcds_pc \in {"convert", "done"}) =>
         LET declared == Lookup(all_schemas, tpcds_last[1].table)
         IN  /\ tpcds_last[1].schema =
                  Append(declared, pyarrow_field("some_null", "null"))
             /\ Len(tpcds_last[1].written) = Len(declared)
             /\ \A i \in 1..Len(declared) : tpcds_last[1].written[i] = declared[i].name
             /\ \A i \in 1..Len(tpcds_last[1].written) :
                  tpcds_last[1].written[i] # "some_null"

\* C27 witness: the third part of the last table has been converted, after
\* the first and second parts of the same table.
C27_Witness ==
  /\ tpcds_pc = "done"
  /\ tpcds_partitions = 3
  /\ tpcds_last # None
  /\ tpcds_last[1].table = "web_returns"
  /\ tpcds_last[1].part = 3
  /\ Len(tpcds_last[1].written) = 24

\* The number of fragments among the first n that are not empty once
\* stripped.
NonEmptyUpTo(fragments, n) ==
  Cardinality({i \in 1..n : Strip(fragments[i]) # <<>>})

\* <<query, fragment>> of the statement an execution record names
Position(record) == <<record[1].query, record[1].fragment>>

Before(p, q) == p[1] < q[1] \/ (p[1] = q[1] /\ p[2] < q[2])

C29_SessionStopped ==
  (bench.pc \in {"done", "raised"} /\ bench.runner = "spark") =>
    bench.session = "stopped"

\* C30: for every query, with a and b the medians of the baseline and the
\* comparison log, the speedup is a/b - 1 when a > b and -(b/a - 1)
\* otherwise; it is positive exactly when b < a and zero exactly when a = b;
\* the speedup of the swapped logs is its negation; and the bars name every
\* query once, carry round(speedup * 100) and are in descending order.
C30_SpeedupAntisymmetric ==
  speedup_chart.pc = "drawn" =>
    /\ \A query \in QueryRange :
         LET a == median(speedup_chart.baseline[query])
             b == median(speedup_chart.comparison[query])
             s == speedup_chart.results[query].speedup
         IN  /\ a[1] > 0 /\ b[1] > 0
             /\ SignedGt(a, b) => s = SignedSub(SignedDiv(a, b), Float(1))
             /\ ~SignedGt(a, b) => s = SignedNeg(SignedSub(SignedDiv(b, a), Float(1)))
             /\ s[1] > 0 <=> SignedGt(a, b)
             /\ s[1] = 0 <=> a = b
             /\ SpeedupResults(speedup_chart.comparison,
                               speedup_chart.baseline)[query].speedup = SignedNeg(s)
    /\ Len(speedup_chart.bars) = Cardinality(QueryRange)
    /\ \A query \in QueryRange :
         \E i \in 1..Len(speedup_chart.bars) :
           /\ speedup_chart.bars[i].name = <<"q", query>>
           /\ speedup_chart.bars[i].percent =
                round_percent(speedup_chart.results[query].speedup)
    /\ \A i \in 1..(Len(speedup_chart.bars) - 1) :
         ~SignedGt(speedup_chart.bars[i + 1].percent, speedup_chart.bars[i].percent)

\* C30 witness: a chart drawn from logs in which some query got faster, some
\* slower and some stayed the same, and whose first bar is not q1.
C30_Witness ==
  /\ speedup_chart.pc = "drawn"
  /\ \E query \in QueryRange : speedup_chart.results[query].speedup[1] > 0
  /\ \E query \in QueryRange : speedup_chart.results[query].speedup[1] < 0
  /\ \E query \in QueryRange : speedup_chart.results[query].speedup[1] = 0
  /\ speedup_chart.bars[1].name # <<"q", 1>>
  /\ speedup_chart.bars[1].percent # speedup_chart.bars[22].percent
====
